---- MODULE Spec2Model ----
(***************************************************************************)
(* Firing engine of the kiln controller (lib/oven.py, kiln-controller.py). *)
(* The control loop (Oven.run, with RealOven's relay actuation) is one     *)
(* action per loop iteration; the operator commands of handle_api are one  *)
(* action each.  Time is in seconds, temperatures in degrees, the PID      *)
(* output in percent of a tick.                                            *)
(***************************************************************************)
EXTENDS Integers, Sequences, FiniteSets, TLC

VARIABLES oven, pid, relay, state_file, firing_logs, now, temp, tc_status, cfg,
          runs, events, cause, run_ticks, pause_ticks,
          dir, files, wr, rd,
          call

\* the engine, its clock and sensor, and the histories kept of them
engine_vars == <<oven, pid, relay, state_file, firing_logs, now, temp, tc_status, cfg,
                 runs, events, cause, run_ticks, pause_ticks>>

\* the directory of the snapshot file, step by step, with one writer and one reader
disk_vars == <<dir, files, wr, rd>>

\* the call of a library function last made on its own: its arguments and what it gave back
lib_vars == <<call>>

vars == <<engine_vars, disk_vars, lib_vars>>

-----------------------------------------------------------------------------
(* Bounds of the model *)

\* ticks are taken while the clock is below StartClock + MaxTime
MaxTime == 5
\* number of accepted run commands
MaxRuns == 2
\* number of snapshot writes followed step by step
MaxSaves == 2
\* number of reads of the snapshot file followed step by step
MaxReads == 2
\* number of calls of PID.compute on one controller
MaxCalls == 3
\* number of thermocouple reads followed one by one
MaxSamples == 12
\* number of points of a v1 profile
MaxPoints == 4
\* number of states the watcher records of one firing
MaxLog == 600

-----------------------------------------------------------------------------
(* Configuration values of the config module, and program constants *)

TimeStep == 1
IdleSleep == 1
RestartSleep == 1
StateSaveInterval == 2
StallDetectTime == 1
StallMinTempRise == 2
RunawayDetectTime == 1
RunawayMinTempRise == 10
EmergencyShutoffTemp == 100
PidControlWindow == 10
PidKp == 5
PidKi == 1
PidKd == 1
PidWindowSize == 100
ThrottleBelowTemp == 50
ThrottlePercent == 25
TemperatureAverageSamples == 1
TrackerLimit == 30
AutomaticRestartWindow == 1
SecondsPerMinute == 60
SecondsPerHour == 3600
SegmentCompleteTolerance == 5
MaxCoolingSamples == 900
RateLookaheadSeconds == 1
MaxTargetDivergence == 50
CoolingTargetTemp == 40
ThermocoupleOffset == 0
KwhRate == 1
KwElements == 1

\* Python's None in a numeric field
None == 0 - 1
\* time.time() at process start: far beyond every interval of the configuration
StartClock == StateSaveInterval + SecondsPerMinute * AutomaticRestartWindow + 1

\* temperatures the smoothed sensor reading takes
Temps == {20, 60, 100}

BaseConfig == [automatic_restarts |-> TRUE,
               ignore_temp_too_high |-> FALSE,
               ignore_tc_too_many_errors |-> FALSE,
               use_rate_based_control |-> FALSE,
               kiln_must_catch_up |-> FALSE,
               throttle_below_temp |-> 0,
               throttle_percent |-> 0,
               temperature_average_samples |-> TemperatureAverageSamples,
               rate_lookahead_seconds |-> RateLookaheadSeconds,
               max_target_divergence |-> MaxTargetDivergence]

\* the configurations explored: the base one and ones that differ from it in one option
Configs == {BaseConfig,
            [BaseConfig EXCEPT !.automatic_restarts = FALSE],
            [BaseConfig EXCEPT !.ignore_temp_too_high = TRUE],
            [BaseConfig EXCEPT !.ignore_tc_too_many_errors = TRUE],
            [BaseConfig EXCEPT !.use_rate_based_control = TRUE]}

-----------------------------------------------------------------------------
(* Profiles (class Profile, class Segment): the loaded objects *)

Seg(kind, rate, target, hold) == [kind |-> kind, rate |-> rate, target |-> target, hold |-> hold]

\* a v1 file [[0,20],[1,90],[2,90]]: one ramp up, the flat pair merged into its hold
ProfileP1 == [name |-> "p1", start_temp |-> 20,
              data |-> << <<0, 20>>, <<1, 90>>, <<2, 90>> >>,
              segments |-> << Seg("num", 252000, 90, 1) >>]

\* a v1 file [[0,60],[1,20],[3,20]]: one ramp down, the flat pair merged into its hold
ProfileP2 == [name |-> "p2", start_temp |-> 60,
              data |-> << <<0, 60>>, <<1, 20>>, <<3, 20>> >>,
              segments |-> << Seg("num", 0 - 144000, 20, 2) >>]

\* a v2 file {start_temp: 100, segments: [{rate: "cool", target: 54, hold: 0.05}]}: the
\* hold is 0.05 min; data is to_legacy_format() with estimated_natural_cooling_rate
\* 165600 degrees an hour, which takes the 46 degrees of the ramp for one second
ProfileP3 == [name |-> "p3", start_temp |-> 100,
              data |-> << <<0, 100>>, <<1, 54>>, <<4, 54>> >>,
              segments |-> << Seg("cool", 0, 54, 3) >>]

\* a v2 file {start_temp: 20, segments: [{rate: 0, target: 60, hold: 1/60},
\* {rate: 144000, target: 60, hold: 0}, {rate: -144000, target: 20, hold: 1/60}]}: a
\* pure hold, a ramp without hold, a ramp down with a hold; data is to_legacy_format()
ProfileP4 == [name |-> "p4", start_temp |-> 20,
              data |-> << <<0, 20>>, <<1, 20>>, <<2, 60>>, <<3, 20>>, <<4, 20>> >>,
              segments |-> << Seg("num", 0, 60, 1), Seg("num", 144000, 60, 0),
                              Seg("num", 0 - 144000, 20, 1) >>]

\* the profiles the operator starts by name
ProfileNames == {"p1", "p2"}

ProfileOf(name) ==
    IF name = "p1" THEN ProfileP1
    ELSE IF name = "p3" THEN ProfileP3
    ELSE IF name = "p4" THEN ProfileP4
    ELSE ProfileP2

Max(a, b) == IF a >= b THEN a ELSE b
Min(a, b) == IF a <= b THEN a ELSE b
Abs(a) == IF a >= 0 THEN a ELSE 0 - a

RECURSIVE MaxTimeOf(_, _)
MaxTimeOf(data, i) == IF i > Len(data) THEN 0 ELSE Max(data[i][1], MaxTimeOf(data, i + 1))

\* Profile.get_duration
get_duration(p) == MaxTimeOf(p.data, 1)

RECURSIVE FirstAfter(_, _, _)
\* index of the first point whose time is beyond t (0 when there is none)
FirstAfter(data, t, i) ==
    IF i > Len(data) THEN 0
    ELSE IF t < data[i][1] THEN i ELSE FirstAfter(data, t, i + 1)

\* Profile.get_surrounding_points: <<prev, next>> or <<>> for (None, None)
get_surrounding_points(p, t) ==
    IF t > get_duration(p) THEN <<>>
    ELSE IF t >= p.data[Len(p.data)][1]
         THEN IF Len(p.data) >= 2 THEN <<p.data[Len(p.data) - 1], p.data[Len(p.data)]>>
                                  ELSE <<p.data[1], p.data[1]>>
         ELSE LET i == FirstAfter(p.data, t, 1)
              IN  IF i = 0 THEN <<>>
                  ELSE IF i = 1 THEN <<p.data[Len(p.data)], p.data[1]>>
                  ELSE <<p.data[i - 1], p.data[i]>>

\* Profile.get_target_temperature
get_target_temperature(p, t) ==
    IF t > get_duration(p) THEN 0
    ELSE LET sp == get_surrounding_points(p, t)
         IN  IF sp = <<>> THEN 0
             ELSE IF sp[2][1] = sp[1][1] THEN sp[1][2]
             ELSE sp[1][2] + ((t - sp[1][1]) * (sp[2][2] - sp[1][2])) \div (sp[2][1] - sp[1][1])

\* Profile.get_rate_for_segment: the rate value, with its kind
get_rate_for_segment(p, i) ==
    IF i >= Len(p.segments) THEN [kind |-> "num", rate |-> 0]
    ELSE [kind |-> p.segments[i + 1].kind, rate |-> p.segments[i + 1].rate]

-----------------------------------------------------------------------------
(* ThermocoupleTracker *)

\* ThermocoupleTracker.__init__
TrackerInit == [i \in 1..(TemperatureAverageSamples * 2) |-> TRUE]

\* ThermocoupleTracker.__init__ under a configuration c
ThermocoupleTracker(c) == [i \in 1..(c.temperature_average_samples * 2) |-> TRUE]

TrackerAdd_keeping_oldest(status, ok) == Append(status, ok)

\* ThermocoupleTracker.good / bad: append the outcome, drop the oldest
TrackerAdd(status, ok) == Tail(Append(status, ok))

RECURSIVE TrackerAddAll(_, _, _)
TrackerAddAll(status, oks, i) ==
    IF i > Len(oks) THEN status ELSE TrackerAddAll(TrackerAdd(status, oks[i]), oks, i + 1)

\* the errors of the window, times 100 (error_percent is this over the size)
error_percent_times_size(status) == Cardinality({i \in 1..Len(status) : status[i] = FALSE}) * 100

\* ThermocoupleTracker.over_error_limit
over_error_limit(status) == error_percent_times_size(status) > TrackerLimit * Len(status)

-----------------------------------------------------------------------------
(* PID *)

\* PID.__init__ at time t; out = None stands for an empty pidstats
NewPID(t) == [iterm |-> 0, lastErr |-> 0, lastNow |-> t, out |-> None]

Clamp(lo, x, hi) == IF x < lo THEN lo ELSE IF x > hi THEN hi ELSE x

\* PID.compute, error below the window: a positive integral term is dropped
pid_iterm_cooling_kept(p) == p.iterm

pid_iterm_cooling(p) == IF p.iterm > 0 THEN 0 ELSE p.iterm

\* PID.compute, error above the window: full duty, or the throttled duty, in percent
pid_output_heating_unthrottled(setpoint) == 100

pid_output_heating(setpoint) ==
    IF cfg.throttle_below_temp # 0 /\ cfg.throttle_percent # 0 /\ setpoint <= cfg.throttle_below_temp
    THEN cfg.throttle_percent ELSE 100

\* PID.compute, error inside the window: the unclamped sum p_term + iterm + d_term
pid_output_unclamped(p, error, timeDelta) ==
    PidKp * error + p.iterm + PidKd * ((error - p.lastErr) \div timeDelta)

\* PID.compute, error inside the window: the integral term after the call
pid_iterm_window_windup(p, error, timeDelta) == p.iterm + (error * timeDelta) \div PidKi

pid_iterm_window(p, error, timeDelta) ==
    LET i_contribution == (error * timeDelta) \div PidKi
        output_unclamped == pid_output_unclamped(p, error, timeDelta)
        output == Clamp(0 - PidWindowSize, output_unclamped, PidWindowSize)
    IN  IF output_unclamped = output THEN p.iterm + i_contribution ELSE p.iterm

\* PID.compute: the new controller state, out being the returned duty in percent.
\* The clock resolves one second: two reads in the same second count as one second apart.
pid_compute(p, setpoint, ispoint, t) ==
    LET timeDelta == Max(t - p.lastNow, 1)
        error == setpoint - ispoint
        clamped == Clamp(0 - PidWindowSize, pid_output_unclamped(p, error, timeDelta), PidWindowSize)
        iterm == IF error < 0 - PidControlWindow THEN pid_iterm_cooling(p)
                 ELSE IF error > PidControlWindow THEN p.iterm
                 ELSE pid_iterm_window(p, error, timeDelta)
        output == IF error < 0 - PidControlWindow THEN 0
                  ELSE IF error > PidControlWindow THEN pid_output_heating(setpoint)
                  ELSE (clamped * 100) \div PidWindowSize
    IN  [iterm |-> iterm, lastErr |-> error, lastNow |-> t, out |-> Max(output, 0)]

-----------------------------------------------------------------------------
(* Oven: the engine.  An operator takes the world w = [oven, pid, relay, file,  *)
(* logs, ev, duty] and returns the world after the method; t is the clock and   *)
(* tp the sensor reading at the call.  ev is the journal of the effects of the   *)
(* action so far, in order; duty is the duty heat_then_cool last actuated.       *)

Ev(w, kind, what) == [w EXCEPT !.ev = Append(@, <<kind, what>>)]

NoFile == [exists |-> FALSE, mtime |-> 0, state |-> "IDLE", profile |-> "none", runtime |-> 0,
           cost |-> 0,
           has_segment |-> FALSE, current_segment |-> 0, segment_phase |-> "ramp"]

\* Output.cool(0): the line goes to its deasserted level
output_cool(w) == Ev([w EXCEPT !.relay = "off"], "relay", "off")

\* Output.heat: the line goes to its asserted level
output_heat(w) == Ev([w EXCEPT !.relay = "on"], "relay", "on")

\* Oven.reset.  stall_start_temp and runaway_start_temp are read only while their
\* timer is armed and are written when it is armed: they are kept at None while it is not.
oven_reset(w, t) ==
    [w EXCEPT !.oven = [@ EXCEPT !.state = "IDLE", !.profile = "none", !.start_time = 0,
                                 !.runtime = 0, !.totaltime = 0, !.target = 0, !.heat = 0,
                                 !.cost = 0, !.catching_up = FALSE, !.cooling_mode = FALSE,
                                 !.cooling_samples = 0,
                                 !.last_state_save = 0,
                                 !.stall_start_time = None, !.stall_start_temp = None,
                                 !.runaway_start_time = None, !.runaway_start_temp = None,
                                 !.current_segment_index = 0, !.segment_phase = "ramp",
                                 !.segment_start_time = None, !.segment_start_temp = None,
                                 !.hold_start_time = None,
                                 !.target_heat_rate = [kind |-> "num", rate |-> 0]],
               !.pid = NewPID(t),
               !.ev = Append(@, <<"state", "IDLE">>)]

\* RealOven.reset without its command to the relay
reset_without_relay(w, t) == oven_reset(w, t)

\* RealOven.reset: Oven.reset, then the relay is switched off
reset(w, t) == output_cool(oven_reset(w, t))

\* v2 control is in use (config.use_rate_based_control; every Profile has segments)
RateBased == cfg.use_rate_based_control

\* Oven.get_state, the fields the snapshot file is read for
get_state(w) ==
    [exists |-> TRUE, mtime |-> 0, state |-> w.oven.state, profile |-> w.oven.profile,
     runtime |-> w.oven.runtime, cost |-> w.oven.cost,
     has_segment |-> RateBased /\ w.oven.profile # "none",
     current_segment |-> IF RateBased /\ w.oven.profile # "none" THEN w.oven.current_segment_index ELSE 0,
     segment_phase |-> IF RateBased /\ w.oven.profile # "none" THEN w.oven.segment_phase ELSE "ramp"]

\* Oven.save_state: temp file, fsync, rename over the snapshot file
save_state(w, t) ==
    Ev([w EXCEPT !.file = [get_state(w) EXCEPT !.mtime = t]], "snapshot", w.oven.state)

\* Oven.save_automatic_restart_state
save_automatic_restart_state(w, t) ==
    IF ~cfg.automatic_restarts THEN w
    ELSE IF t - w.oven.last_state_save < StateSaveInterval THEN w
    ELSE [save_state(w, t) EXCEPT !.oven.last_state_save = t]

\* Oven.save_firing_log
save_firing_log(w, status) ==
    IF w.oven.profile = "none" THEN w
    ELSE Ev([w EXCEPT !.logs = Append(@, [run |-> runs, status |-> status])], "log", status)

\* Oven.start_cooling; cooling_samples is the length of the buffer cooling_temps
start_cooling(w) == [w EXCEPT !.oven.cooling_mode = TRUE, !.oven.cooling_samples = 0]

\* Oven.update_cooling_estimate: the reading joins the buffer, which keeps the latest 900
update_cooling_estimate(w) ==
    [w EXCEPT !.oven.cooling_samples = Min(@ + 1, MaxCoolingSamples)]

\* abort_run without its snapshot
abort_run_without_snapshot(w, t) ==
    reset(IF w.oven.profile # "none" THEN save_firing_log(w, "aborted") ELSE w, t)

\* Oven.abort_run
abort_run(w, t) ==
    save_automatic_restart_state(
        reset(IF w.oven.profile # "none" THEN save_firing_log(w, "aborted") ELSE w, t), t)

\* Oven.run_profile, entered with runtime0 = startat * 60 (config.seek_start is off)
run_profile(w, name, runtime0, t, tp) ==
    LET r == reset(w, t)
        o1 == [r.oven EXCEPT !.runtime = runtime0, !.start_time = t - runtime0,
                             !.profile = name, !.totaltime = get_duration(ProfileOf(name)),
                             !.state = "RUNNING"]
        o2 == IF RateBased
              THEN [o1 EXCEPT !.current_segment_index = 0, !.segment_phase = "ramp",
                              !.segment_start_time = t,
                              !.segment_start_temp = tp + ThermocoupleOffset,
                              !.hold_start_time = None]
              ELSE o1
    IN  Ev([r EXCEPT !.oven = o2], "state", "RUNNING")

\* the start time left where it is
get_start_time_kept(w, t) == w.oven.start_time

\* Oven.get_start_time
get_start_time(w, t) == t - w.oven.runtime

\* kiln_must_catch_up raising its flag without shifting the schedule
kiln_must_catch_up_flag_only(w, t, tp) ==
    IF ~cfg.kiln_must_catch_up THEN w
    ELSE [w EXCEPT !.oven.catching_up = Abs(w.oven.target - (tp + ThermocoupleOffset)) > PidControlWindow]

\* Oven.kiln_must_catch_up
kiln_must_catch_up(w, t, tp) ==
    IF ~cfg.kiln_must_catch_up THEN w
    ELSE IF Abs(w.oven.target - (tp + ThermocoupleOffset)) > PidControlWindow
         THEN [w EXCEPT !.oven.start_time = get_start_time(w, t), !.oven.catching_up = TRUE]
         ELSE [w EXCEPT !.oven.catching_up = FALSE]

\* update_runtime leaving the runtime where it is
update_runtime_kept(w, t) == w

\* Oven.update_runtime
update_runtime(w, t) == [w EXCEPT !.oven.runtime = Max(t - w.oven.start_time, 0)]

\* Oven._advance_segment
advance_segment(w, t, tp) ==
    LET i == w.oven.current_segment_index + 1
        w1 == [w EXCEPT !.oven.current_segment_index = i]
    IN  IF i >= Len(ProfileOf(w.oven.profile).segments)
        THEN Ev([start_cooling(save_firing_log(w1, "completed")) EXCEPT !.oven.state = "IDLE"],
                "state", "IDLE")
        ELSE [w1 EXCEPT !.oven.segment_phase = "ramp", !.oven.segment_start_time = t,
                        !.oven.segment_start_temp = tp + ThermocoupleOffset]

\* update_segment_progress taking every ramp for finished
reached_target_at_once(segment, tmp) == TRUE

\* the ramp of a segment has brought the kiln to its target (update_segment_progress)
reached_target(segment, tmp) ==
    IF segment.kind = "num"
    THEN IF segment.rate > 0 THEN tmp >= segment.target - SegmentCompleteTolerance
         ELSE IF segment.rate < 0 THEN tmp <= segment.target + SegmentCompleteTolerance
         ELSE TRUE
    ELSE IF segment.kind = "max" THEN tmp >= segment.target - SegmentCompleteTolerance
    ELSE tmp <= segment.target + SegmentCompleteTolerance

\* Oven.update_segment_progress
update_segment_progress(w, t, tp) ==
    LET segs == ProfileOf(w.oven.profile).segments
        segment == segs[w.oven.current_segment_index + 1]
    IN  IF Len(segs) = 0 THEN w
        ELSE IF w.oven.segment_phase = "ramp"
        THEN IF reached_target(segment, tp + ThermocoupleOffset)
             THEN IF segment.hold > 0
                  THEN [w EXCEPT !.oven.segment_phase = "hold", !.oven.hold_start_time = t]
                  ELSE advance_segment(w, t, tp)
             ELSE w
        ELSE IF w.oven.segment_phase = "hold" /\ w.oven.hold_start_time # None
                /\ t - w.oven.hold_start_time >= segment.hold
        THEN advance_segment(w, t, tp)
        ELSE w

\* Oven.calculate_rate_based_target on the Oven fields o with the loaded profile p.
\* "x if self.segment_start_temp else y" takes y for None and for 0.
rate_based_target(p, o, t, tp) ==
    LET segs == p.segments
        segment == segs[o.current_segment_index + 1]
        actual_temp == tp + ThermocoupleOffset
        elapsed_seconds == IF o.segment_start_time # None THEN t - o.segment_start_time ELSE 0
        start_temp == IF o.segment_start_temp # None /\ o.segment_start_temp # 0
                      THEN o.segment_start_temp ELSE actual_temp
        rate_based_ceiling == start_temp + (segment.rate * elapsed_seconds) \div SecondsPerHour
        raw_lead == (segment.rate * Min(elapsed_seconds, cfg.rate_lookahead_seconds)) \div SecondsPerHour
        lead == IF Abs(raw_lead) > cfg.max_target_divergence
                THEN IF raw_lead > 0 THEN cfg.max_target_divergence ELSE 0 - cfg.max_target_divergence
                ELSE raw_lead
        target_before_clamp == rate_based_ceiling + lead
    IN  IF Len(segs) = 0 THEN get_target_temperature(p, o.runtime)
        ELSE IF o.current_segment_index >= Len(segs) THEN 0
        ELSE IF o.segment_phase = "hold" THEN segment.target
        ELSE IF segment.kind # "num" THEN segment.target
        ELSE IF segment.rate = 0 THEN segment.target
        ELSE IF segment.rate > 0 THEN Min(target_before_clamp, segment.target)
        ELSE Max(target_before_clamp, segment.target)

\* Oven.calculate_rate_based_target
calculate_rate_based_target(w, t, tp) == rate_based_target(ProfileOf(w.oven.profile), w.oven, t, tp)

\* Oven.update_target_temp
update_target_temp(w, t, tp) ==
    IF RateBased
    THEN [w EXCEPT !.oven.target = calculate_rate_based_target(w, t, tp),
                   !.oven.target_heat_rate =
                       get_rate_for_segment(ProfileOf(w.oven.profile), w.oven.current_segment_index)]
    ELSE [w EXCEPT !.oven.target = get_target_temperature(ProfileOf(w.oven.profile), w.oven.runtime)]

\* Oven.reset_if_schedule_ended_v2
reset_if_schedule_ended_v2(w, t) ==
    IF RateBased /\ w.oven.current_segment_index >= Len(ProfileOf(w.oven.profile).segments)
       /\ w.oven.state = "RUNNING"
    THEN save_automatic_restart_state(
             Ev([start_cooling(save_firing_log(w, "completed")) EXCEPT !.oven.state = "IDLE"],
                "state", "IDLE"), t)
    ELSE w

\* reset_if_schedule_ended ending the run as soon as runtime reaches the duration
reset_if_schedule_ended_at_duration(w, t) ==
    IF w.oven.runtime >= w.oven.totaltime
    THEN save_automatic_restart_state(
             Ev([start_cooling(save_firing_log(w, "completed")) EXCEPT !.oven.state = "IDLE"],
                "state", "IDLE"), t)
    ELSE w

\* Oven.reset_if_schedule_ended
reset_if_schedule_ended(w, t) ==
    IF w.oven.runtime > w.oven.totaltime
    THEN save_automatic_restart_state(
             Ev([start_cooling(save_firing_log(w, "completed")) EXCEPT !.oven.state = "IDLE"],
                "state", "IDLE"), t)
    ELSE w

\* RealOven.heat_then_cool up to self.heat: the duty of the tick (pid, heat_on, heat_off)
heat_then_cool_compute(w, t, tp) ==
    LET p1 == pid_compute(w.pid, w.oven.target, tp + ThermocoupleOffset, t)
        thr == w.oven.target_heat_rate
        cooling_override == thr.kind = "num" /\ thr.rate < 0 /\ tp + ThermocoupleOffset >= w.oven.target
        p2 == IF cooling_override THEN [p1 EXCEPT !.iterm = 0, !.out = 0] ELSE p1
        duty == p2.out
    IN  [w EXCEPT !.pid = p2, !.oven.heat = IF duty > 0 THEN 1 ELSE 0, !.duty = duty]

\* RealOven.heat_then_cool from "if heat_on" to the return of its last sleep
heat_then_cool_actuate(w) ==
    LET w2 == IF w.duty # 0 THEN output_heat(w) ELSE w
    IN  IF w.duty # 100 THEN output_cool(w2) ELSE w2

\* RealOven.heat_then_cool, up to the return of its last sleep
heat_then_cool(w, t, tp) == heat_then_cool_actuate(heat_then_cool_compute(w, t, tp))

\* the block of an interlock with the firing log written after the reset
emergency_abort_log_last(w, t, status, why) ==
    LET w0 == reset(Ev(w, "abort", why), t)
    IN  save_automatic_restart_state(
            IF w0.oven.profile # "none" THEN save_firing_log(w0, status) ELSE w0, t)

\* the block every interlock of reset_if_emergency runs when it fires; why names the interlock
emergency_abort(w, t, status, why) ==
    LET w0 == Ev(w, "abort", why)
    IN  save_automatic_restart_state(
            reset(IF w0.oven.profile # "none" THEN save_firing_log(w0, status) ELSE w0, t), t)

\* the duty reset_if_emergency reads: pidstats['out'], or the heat flag when pidstats is empty
duty_cycle(w) == IF w.pid.out # None THEN w.pid.out ELSE IF w.oven.heat # 0 THEN 100 ELSE 0

\* Oven.update_cost, in units of 1/(100 * 3600) of the currency: the duty is in percent
\* and the tick in seconds
update_cost(w) ==
    IF duty_cycle(w) > 0
    THEN [w EXCEPT !.oven.cost = @ + KwhRate * KwElements * duty_cycle(w) * TimeStep]
    ELSE w

\* reset_if_emergency, stall detection: the timer has run out and the rise is too small
\* (taking only a fall of the temperature for a stall)
stall_fires_on_fall(w, t, tmp) ==
    /\ duty_cycle(w) > 95
    /\ w.oven.stall_start_time # None
    /\ t - w.oven.stall_start_time > StallDetectTime
    /\ tmp - w.oven.stall_start_temp < 0

\* reset_if_emergency, stall detection: the timer has run out and the rise is too small
stall_fires(w, t, tmp) ==
    /\ duty_cycle(w) > 95
    /\ w.oven.stall_start_time # None
    /\ t - w.oven.stall_start_time > StallDetectTime
    /\ tmp - w.oven.stall_start_temp < StallMinTempRise

\* reset_if_emergency, stall detection: arming and clearing the timer
stall_arm(w, t, tmp) ==
    IF duty_cycle(w) > 95
    THEN IF w.oven.stall_start_time = None
         THEN [w EXCEPT !.oven.stall_start_time = t, !.oven.stall_start_temp = tmp]
         ELSE w
    ELSE [w EXCEPT !.oven.stall_start_time = None, !.oven.stall_start_temp = None]

\* reset_if_emergency, runaway detection: the timer has run out and the rise is too large
\* (measuring the rise from the reading of the tick before)
runaway_fires_on_step(w, t, tmp) ==
    /\ duty_cycle(w) < 5
    /\ w.oven.runaway_start_time # None
    /\ t - w.oven.runaway_start_time > RunawayDetectTime
    /\ tmp - temp > RunawayMinTempRise

\* reset_if_emergency, runaway detection: the timer has run out and the rise is too large
runaway_fires(w, t, tmp) ==
    /\ duty_cycle(w) < 5
    /\ w.oven.runaway_start_time # None
    /\ t - w.oven.runaway_start_time > RunawayDetectTime
    /\ tmp - w.oven.runaway_start_temp > RunawayMinTempRise

\* reset_if_emergency, runaway detection: arming and clearing the timer
runaway_arm(w, t, tmp) ==
    IF duty_cycle(w) < 5
    THEN IF w.oven.runaway_start_time = None
         THEN [w EXCEPT !.oven.runaway_start_time = t, !.oven.runaway_start_temp = tmp]
         ELSE w
    ELSE [w EXCEPT !.oven.runaway_start_time = None, !.oven.runaway_start_temp = None]

\* reset_if_emergency, the stall and runaway checks of a RUNNING engine
stall_and_runaway(w, t, tmp) ==
    IF stall_fires(w, t, tmp) THEN emergency_abort(w, t, "stalled", "stall")
    ELSE IF runaway_fires(stall_arm(w, t, tmp), t, tmp)
    THEN emergency_abort(stall_arm(w, t, tmp), t, "runaway", "runaway")
    ELSE runaway_arm(stall_arm(w, t, tmp), t, tmp)

\* reset_if_emergency with the overtemperature threshold made exclusive
reset_if_emergency_exclusive(w, t, tp, status) ==
    LET tmp == tp + ThermocoupleOffset
    IN  IF tmp > EmergencyShutoffTemp /\ ~cfg.ignore_temp_too_high
        THEN emergency_abort(w, t, "emergency_stop", "overtemp")
        ELSE IF over_error_limit(status) /\ ~cfg.ignore_tc_too_many_errors
        THEN emergency_abort(w, t, "emergency_stop", "tc_errors")
        ELSE IF w.oven.state # "RUNNING"
        THEN [w EXCEPT !.oven.stall_start_time = None, !.oven.stall_start_temp = None,
                       !.oven.runaway_start_time = None, !.oven.runaway_start_temp = None]
        ELSE stall_and_runaway(w, t, tmp)

\* reset_if_emergency with the error-rate interlock checked only while RUNNING
reset_if_emergency_running_only(w, t, tp, status) ==
    LET tmp == tp + ThermocoupleOffset
    IN  IF tmp >= EmergencyShutoffTemp /\ ~cfg.ignore_temp_too_high
        THEN emergency_abort(w, t, "emergency_stop", "overtemp")
        ELSE IF w.oven.state # "RUNNING"
        THEN [w EXCEPT !.oven.stall_start_time = None, !.oven.stall_start_temp = None,
                       !.oven.runaway_start_time = None, !.oven.runaway_start_temp = None]
        ELSE IF over_error_limit(status) /\ ~cfg.ignore_tc_too_many_errors
        THEN emergency_abort(w, t, "emergency_stop", "tc_errors")
        ELSE stall_and_runaway(w, t, tmp)

\* Oven.reset_if_emergency
reset_if_emergency(w, t, tp, status) ==
    LET tmp == tp + ThermocoupleOffset
    IN  IF tmp >= EmergencyShutoffTemp /\ ~cfg.ignore_temp_too_high
        THEN emergency_abort(w, t, "emergency_stop", "overtemp")
        ELSE IF over_error_limit(status) /\ ~cfg.ignore_tc_too_many_errors
        THEN emergency_abort(w, t, "emergency_stop", "tc_errors")
        ELSE IF w.oven.state # "RUNNING"
        THEN [w EXCEPT !.oven.stall_start_time = None, !.oven.stall_start_temp = None,
                       !.oven.runaway_start_time = None, !.oven.runaway_start_temp = None]
        ELSE stall_and_runaway(w, t, tmp)

\* Oven.state_file_is_old
state_file_is_old(w, t) ==
    ~(w.file.exists /\ t - w.file.mtime <= AutomaticRestartWindow * SecondsPerMinute)

\* should_i_automatic_restart without the check of the file's age
should_i_automatic_restart_any_age(w, t) ==
    /\ cfg.automatic_restarts
    /\ w.file.exists
    /\ w.file.state = "RUNNING"

\* Oven.should_i_automatic_restart
should_i_automatic_restart(w, t) ==
    /\ cfg.automatic_restarts
    /\ ~state_file_is_old(w, t)
    /\ w.file.state = "RUNNING"

\* automatic_restart with the hold timer taken up where the snapshot was written
automatic_restart_hold_from_snapshot(w, t, tp) ==
    LET d == w.file
        r == reset(w, t)
        o1 == [r.oven EXCEPT !.profile = d.profile,
                             !.totaltime = get_duration(ProfileOf(d.profile)),
                             !.start_time = t,
                             !.current_segment_index = d.current_segment,
                             !.segment_phase = d.segment_phase,
                             !.segment_start_time = t,
                             !.segment_start_temp = tp + ThermocoupleOffset,
                             !.hold_start_time = IF d.segment_phase = "hold" THEN d.mtime ELSE None,
                             !.cost = d.cost,
                             !.state = "RUNNING"]
        v1 == run_profile(w, d.profile, d.runtime, t, tp)
    IN  Ev(IF RateBased /\ d.has_segment
           THEN Ev([r EXCEPT !.oven = o1], "state", "RUNNING")
           ELSE [v1 EXCEPT !.oven.cost = d.cost],
           "restart", d.profile)

\* Oven.automatic_restart, up to its sleep
automatic_restart(w, t, tp) ==
    LET d == w.file
        r == reset(w, t)
        o1 == [r.oven EXCEPT !.profile = d.profile,
                             !.totaltime = get_duration(ProfileOf(d.profile)),
                             !.start_time = t,
                             !.current_segment_index = d.current_segment,
                             !.segment_phase = d.segment_phase,
                             !.segment_start_time = t,
                             !.segment_start_temp = tp + ThermocoupleOffset,
                             !.hold_start_time = IF d.segment_phase = "hold" THEN t ELSE None,
                             !.cost = d.cost,
                             !.state = "RUNNING"]
        v1 == run_profile(w, d.profile, d.runtime, t, tp)
    IN  Ev(IF RateBased /\ d.has_segment
           THEN Ev([r EXCEPT !.oven = o1], "state", "RUNNING")
           ELSE [v1 EXCEPT !.oven.cost = d.cost],
           "restart", d.profile)

\* Oven.run, the IDLE branch up to its sleep
idle_branch(w, t, tp) ==
    IF should_i_automatic_restart(w, t) THEN automatic_restart(w, t, tp)
    ELSE IF tp + ThermocoupleOffset > CoolingTargetTemp
         THEN update_cooling_estimate(IF ~w.oven.cooling_mode THEN start_cooling(w) ELSE w)
         ELSE IF w.oven.cooling_mode THEN [w EXCEPT !.oven.cooling_mode = FALSE] ELSE w

\* the PAUSED branch without its interlock check
paused_branch_without_interlocks(w, t, tp, t1, tp1, status1) ==
    LET w1 == [w EXCEPT !.oven.start_time = get_start_time(w, t)]
        w2 == update_target_temp(update_runtime(w1, t), t, tp)
        w3 == heat_then_cool(w2, t, tp)
    IN  reset_if_schedule_ended(w3, t1)

\* Oven.run, the PAUSED branch
paused_branch(w, t, tp, t1, tp1, status1) ==
    LET w1 == [w EXCEPT !.oven.start_time = get_start_time(w, t)]
        w2 == update_target_temp(update_runtime(w1, t), t, tp)
        w3 == heat_then_cool(w2, t, tp)
        w4 == reset_if_emergency(w3, t1, tp1, status1)
    IN  reset_if_schedule_ended(w4, t1)

\* Oven.run, the RUNNING branch; the sleeps of heat_then_cool end at t1, where the
\* sensor reads tp1 and the fault window is status1
running_branch(w, t, tp, t1, tp1, status1) ==
    LET w1 == save_automatic_restart_state(update_cost(w), t)
        w2 == IF RateBased
              THEN reset_if_schedule_ended_v2(
                       update_target_temp(update_segment_progress(w1, t, tp), t, tp), t)
              ELSE reset_if_schedule_ended(
                       update_target_temp(update_runtime(kiln_must_catch_up(w1, t, tp), t), t, tp), t)
        w3 == heat_then_cool(w2, t, tp)
    IN  reset_if_emergency(w3, t1, tp1, status1)

\* the pause branch without its check of the state
handle_pause_any_state(w) == Ev([w EXCEPT !.oven.state = "PAUSED"], "state", "PAUSED")

\* handle_api, the pause branch
handle_pause(w) ==
    IF w.oven.state = "RUNNING"
    THEN Ev([w EXCEPT !.oven.state = "PAUSED"], "state", "PAUSED")
    ELSE Ev(w, "rejected", "pause")

\* handle_api, the resume branch
handle_resume(w) ==
    IF w.oven.state = "PAUSED"
    THEN Ev([w EXCEPT !.oven.state = "RUNNING"], "state", "RUNNING")
    ELSE Ev(w, "rejected", "resume")

-----------------------------------------------------------------------------
(* Oven.save_state step by step: the directory of the snapshot file *)

\* a slot that holds no file
Free == [text |-> "free", data |-> NoFile]

\* the files a run of save_state calls can bring into being: the one found, one a write
FileIds == 1..(MaxSaves + 1)

\* the directory: the file under the name automatic_restart_state_file and the one
\* under the name mkstemp made up (0: no such name)
NoDir == [state |-> 0, tmp |-> 0]

NoFiles == [i \in FileIds |-> Free]

\* a file of the directory: text tells how much of the JSON document it holds
FileOf(text, data) == [text |-> text, data |-> data]

\* the writer outside save_state; found is what the snapshot file holds, engine the
\* fields of the Oven object
InitWriter(found, engine) ==
    [pc |-> "idle", fd |-> 0, temp_path |-> "", exc |-> "", failed |-> FALSE,
     raised |-> FALSE, before |-> found, engine |-> engine, saves |-> 0,
     installed |-> {found.data}]

\* the reader with no file open and nothing read
InitReader == [fd |-> 0, seen |-> Free, reads |-> 0]

\* the world the steps of save_state work in
Disk == [dir |-> dir, files |-> files, wr |-> wr]

\* what the name automatic_restart_state_file leads to
StateFileOf(d) == IF d.dir.state = 0 THEN Free ELSE d.files[d.dir.state]

\* tempfile.mkstemp: a new, empty file under a new name in the directory of the snapshot
mkstemp(d) ==
    LET n == CHOOSE i \in FileIds : d.files[i] = Free /\ \A j \in FileIds : d.files[j] = Free => i <= j
    IN  [d EXCEPT !.files[n] = FileOf("empty", NoFile), !.dir.tmp = n,
                  !.wr.temp_path = "tmp", !.wr.fd = n]

\* the file json.dump would write into if the snapshot file were opened instead
dump_file_in_place(d) == IF d.dir.state # 0 THEN d.dir.state ELSE d.wr.fd

\* the file json.dump writes into: the one os.fdopen(temp_fd) opened
dump_file(d) == d.wr.fd

\* json.dump under way: part of the document is in the file
json_dump_begin(d, snapshot) ==
    [d EXCEPT !.files[dump_file(d)] = FileOf("partial", snapshot)]

\* json.dump and f.flush done: the whole document is in the file
json_dump_end(d) == [d EXCEPT !.files[dump_file(d)].text = "full"]

\* os.replace(temp_path, automatic_restart_state_file): the name of the snapshot
\* goes over to the temp file in one step
os_replace(d) ==
    [d EXCEPT !.dir.state = d.dir.tmp, !.dir.tmp = 0,
              !.wr.installed = @ \cup {d.files[d.dir.tmp].data}]

\* the handler of save_state with no removal of the temp file
cleanup_keeps_temp(d) == d

\* the handler of save_state: the temp file is removed when mkstemp got as far as naming it
cleanup(d) ==
    IF d.wr.temp_path # "" /\ d.dir.tmp # 0
    THEN [d EXCEPT !.files[d.dir.tmp] = Free, !.dir.tmp = 0]
    ELSE d

\* the exceptions the steps of save_state raise
Exceptions == {"OSError", "TypeError"}

\* except Exception: the classes the handler of save_state catches
caught(exc) == exc \in {"OSError", "TypeError", "ValueError"}

-----------------------------------------------------------------------------
(* Building a Profile from a stored v2 file (Profile.__init__, Profile._load_v2) *)

\* a segment as the file gives it; the hold is hold_num / hold_den minutes
RawSeg(kind, rate, target, hold_num, hold_den) ==
    [kind |-> kind, rate |-> rate, target |-> target, hold_num |-> hold_num, hold_den |-> hold_den]

\* the file of ProfileP3
FileP3 == [name |-> "p3", version |-> 2, start_temp |-> 100,
           segments |-> << RawSeg("cool", 0, 54, 1, 20) >>]

\* a file with a negative rate towards a higher target
FileFallingRateUp == [name |-> "falling_rate_up", version |-> 2, start_temp |-> 200,
                      segments |-> << RawSeg("num", 0 - 100, 500, 0, 1) >>]

\* a file whose second segment has a positive rate towards a lower target
FileRisingRateDown == [name |-> "rising_rate_down", version |-> 2, start_temp |-> 200,
                       segments |-> << RawSeg("num", 100, 500, 0, 1),
                                       RawSeg("num", 100, 300, 0, 1) >>]

\* the v2 files of the profile store
StoredFiles == {FileP3, FileFallingRateUp, FileRisingRateDown}

\* json.dumps of a parsed profile: a document that json.loads reads back
json_dumps(obj) == [well_formed |-> TRUE, obj |-> obj]

\* Segment.__init__: the hold comes in minutes and is kept in seconds
Segment(raw) == Seg(raw.kind, raw.rate, raw.target, (raw.hold_num * SecondsPerMinute) \div raw.hold_den)

\* Segment.validate with no check of the direction
validate_any_direction(segment, previous_target) == TRUE

\* Segment.validate that takes a rate towards the target it starts from for a contradiction
validate_strict(segment, previous_target) ==
    ~ /\ segment.kind = "num"
      /\ \/ segment.rate < 0 /\ segment.target >= previous_target
         \/ segment.rate > 0 /\ segment.target <= previous_target

\* Segment.validate: FALSE stands for the ValueError it raises
validate(segment, previous_target) ==
    ~ /\ segment.kind = "num"
      /\ \/ segment.rate < 0 /\ segment.target > previous_target
         \/ segment.rate > 0 /\ segment.target < previous_target

RECURSIVE load_segments(_, _, _, _)
\* the loop of Profile._load_v2 from the i-th segment of the file on, temp_units being
\* those of config.temp_scale; raised names the exception that ended it
load_segments(raws, i, segments, start_temp) ==
    IF i > Len(raws) THEN [raised |-> "", segments |-> segments]
    ELSE LET segment == Segment(raws[i])
             previous_target == IF segments # <<>> THEN segments[Len(segments)].target
                                ELSE start_temp
         IN  IF ~validate(segment, previous_target)
             THEN [raised |-> "ValueError", segments |-> segments]
             ELSE load_segments(raws, i + 1, Append(segments, segment), start_temp)

\* Profile._load_v2
load_v2(obj) == load_segments(obj.segments, 1, <<>>, obj.start_temp)

\* Profile.__init__ for a v2 document: json.loads, then _load_v2
Profile(json_data) ==
    IF ~json_data.well_formed THEN [raised |-> "ValueError", segments |-> <<>>]
    ELSE load_v2(json_data.obj)

\* handle_api, the run branch for a stored file, from Profile(profile_json) on
handle_run(w, file, t, tp) ==
    IF Profile(json_dumps(file)).raised # ""
    THEN Ev(w, "raised", Profile(json_dumps(file)).raised)
    ELSE run_profile(w, file.name, 0, t, tp)

-----------------------------------------------------------------------------
(* Building a Profile from a v1 file (Profile.__init__, Profile._load_legacy) *)

\* _load_legacy, a flat pair: every flat pair becomes a hold segment of its own
legacy_hold_standalone(segments, curr_temp, time_diff) ==
    Append(segments, Seg("num", 0, curr_temp, time_diff))

\* _load_legacy, a flat pair of time_diff seconds at curr_temp: hold_minutes is
\* time_diff / 60, and the hold is kept in seconds
legacy_hold(segments, curr_temp, time_diff) ==
    IF segments # <<>> /\ segments[Len(segments)].target = curr_temp
    THEN [segments EXCEPT ![Len(segments)].hold = @ + (time_diff * SecondsPerMinute) \div SecondsPerMinute]
    ELSE Append(segments, Seg("num", 0, curr_temp, (time_diff * SecondsPerMinute) \div SecondsPerMinute))

RECURSIVE legacy_segments(_, _, _)
\* the loop of _load_legacy over obj["data"], from the pair that ends at point i on
legacy_segments(data, i, segments) ==
    IF i > Len(data) THEN segments
    ELSE LET time_diff == data[i][1] - data[i - 1][1]
             temp_diff == data[i][2] - data[i - 1][2]
         IN  legacy_segments(data, i + 1,
                 IF time_diff > 0
                 THEN IF temp_diff # 0
                      THEN Append(segments, Seg("num", (temp_diff * SecondsPerHour) \div time_diff,
                                                data[i][2], 0))
                      ELSE legacy_hold(segments, data[i][2], time_diff)
                 ELSE segments)

\* Profile._load_legacy: the segments of a v1 point list
load_legacy(data) == legacy_segments(data, 2, <<>>)

-----------------------------------------------------------------------------
(* Profile.find_next_time_from_temperature *)

\* Profile.find_x_given_y_on_line_from_two_points: the time, or None
find_x_given_y_on_line_from_two_points(y, point1, point2) ==
    IF point1[1] > point2[1] THEN None
    ELSE IF point1[2] >= point2[2] THEN None
    ELSE IF y < point1[2] \/ y > point2[2] THEN None
    ELSE ((y - point1[2]) * (point2[1] - point1[1])) \div (point2[2] - point1[2]) + point1[1]

\* find_next_time_from_temperature, a pair of points around the temperature, with no
\* time for a flat pair
seek_in_pair_rising_only(temperature, point1, point2) ==
    find_x_given_y_on_line_from_two_points(temperature, point1, point2)

\* find_next_time_from_temperature, a pair of points around the temperature: the time
\* the loop breaks with, or None when it goes on
seek_in_pair(temperature, point1, point2) ==
    LET result == find_x_given_y_on_line_from_two_points(temperature, point1, point2)
    IN  IF result # None THEN result
        ELSE IF point1[2] = point2[2] THEN point1[1]
        ELSE None

RECURSIVE seek_from(_, _, _)
\* the loop of find_next_time_from_temperature from the point at index on (index
\* counts from 1: the first point has none before it)
seek_from(data, temperature, index) ==
    IF index > Len(data) THEN 0
    ELSE IF /\ data[index][2] >= temperature
            /\ index > 1
            /\ data[index - 1][2] <= temperature
            /\ seek_in_pair(temperature, data[index - 1], data[index]) # None
         THEN seek_in_pair(temperature, data[index - 1], data[index])
         ELSE seek_from(data, temperature, index + 1)

\* Profile.find_next_time_from_temperature
find_next_time_from_temperature(p, temperature) == seek_from(p.data, temperature, 1)

-----------------------------------------------------------------------------
(* OvenWatcher: the recording of a firing *)

\* maxpts of lastlog_subset: its default, and the one save_firing_log passes
DefaultMaxpts == 50
FiringLogMaxpts == 500

\* OvenWatcher.lastlog_subset: the whole recording, or every every_nth entry of it
\* from the first one on
lastlog_subset(last_log, maxpts) ==
    LET totalpts == Len(last_log)
        every_nth == totalpts \div (maxpts - 1)
    IN  IF totalpts <= maxpts THEN last_log
        ELSE [k \in 1..((totalpts + every_nth - 1) \div every_nth) |-> last_log[(k - 1) * every_nth + 1]]

-----------------------------------------------------------------------------
(* The state machine *)

\* the world an action starts from; its journal opens with the action and the state it found
World(first) == [oven |-> oven, pid |-> pid, relay |-> relay, file |-> state_file,
                 logs |-> firing_logs, ev |-> <<first, <<"from", oven.state>> >>, duty |-> None]

Has(ev, kind) == \E i \in 1..Len(ev) : ev[i][1] = kind
HasEv(ev, kind, what) == \E i \in 1..Len(ev) : ev[i] = <<kind, what>>

\* firing_logs holds the firing logs of the latest run: a run that starts has none yet
NewRun(r) ==
    IF Has(r.ev, "restart") \/ (HasEv(r.ev, "cmd", "run") /\ ~Has(r.ev, "raised"))
    THEN [r EXCEPT !.logs = <<>>] ELSE r

\* why the engine last changed course: read off the effects of the action
CauseOf(ev, old) ==
    IF Has(ev, "abort") THEN "abort"
    ELSE IF HasEv(ev, "log", "completed") THEN "end"
    ELSE IF Has(ev, "restart") THEN "restart"
    ELSE IF HasEv(ev, "cmd", "stop") THEN "stop"
    ELSE IF HasEv(ev, "cmd", "run") /\ ~Has(ev, "raised") THEN "run"
    ELSE old

Commit(r) ==
    /\ oven' = r.oven
    /\ pid' = r.pid
    /\ relay' = r.relay
    /\ state_file' = r.file
    /\ firing_logs' = NewRun(r).logs
    /\ events' = r.ev
    /\ cause' = CauseOf(r.ev, cause)

\* no library function has been called on its own
NoCall == [fn |-> "none", n |-> 0]

\* the object after Oven.__init__ (reset() of a fresh object)
InitOven == [state |-> "IDLE", profile |-> "none", start_time |-> 0, runtime |-> 0,
             totaltime |-> 0, target |-> 0, heat |-> 0, cost |-> 0, catching_up |-> FALSE,
             cooling_mode |-> FALSE, cooling_samples |-> 0, last_state_save |-> 0,
             stall_start_time |-> None, stall_start_temp |-> None,
             runaway_start_time |-> None, runaway_start_temp |-> None,
             current_segment_index |-> 0, segment_phase |-> "ramp",
             segment_start_time |-> None, segment_start_temp |-> None,
             hold_start_time |-> None,
             target_heat_rate |-> [kind |-> "num", rate |-> 0]]

\* the cost an earlier process had run up when it wrote its last snapshot
LeftCost == 7

\* a snapshot an earlier process left behind, written at time m
LeftSnapshot(c, m, phase) ==
    [exists |-> TRUE, mtime |-> m, state |-> "RUNNING",
     profile |-> IF c.use_rate_based_control THEN "p3" ELSE "p1", runtime |-> 1,
     cost |-> LeftCost,
     has_segment |-> c.use_rate_based_control, current_segment |-> 0,
     segment_phase |-> IF c.use_rate_based_control THEN phase ELSE "ramp"]

\* what the disk holds at process start
InitFiles(c) ==
    IF ~c.automatic_restarts \/ c.ignore_temp_too_high \/ c.ignore_tc_too_many_errors
    THEN {NoFile}
    ELSE {NoFile,
          LeftSnapshot(c, StartClock - 1, "hold"),
          LeftSnapshot(c, StartClock - AutomaticRestartWindow * SecondsPerMinute - 1, "ramp")}

Init ==
    /\ cfg \in Configs
    /\ oven = InitOven
    /\ pid = NewPID(StartClock)
    /\ relay = "off"
    /\ state_file \in InitFiles(cfg)
    /\ firing_logs = <<>>
    /\ now = StartClock
    /\ temp = 20
    /\ tc_status = TrackerInit
    /\ runs = 0
    /\ events = <<>>
    /\ cause = "init"
    /\ run_ticks = <<>>
    /\ pause_ticks = <<>>
    /\ dir = NoDir
    /\ files = NoFiles
    /\ wr = InitWriter(Free, InitOven)
    /\ rd = InitReader
    /\ call = NoCall

Samples == [1..TemperatureAverageSamples -> BOOLEAN]

ClockOpen == now < StartClock + MaxTime

\* one iteration of Oven.run with state IDLE
TickIdle(tp1, oks) ==
    /\ oven.state = "IDLE"
    /\ ClockOpen
    /\ LET r == idle_branch(World(<<"tick", "IDLE">>), now, temp)
       IN  /\ Commit(r)
           /\ now' = now + IdleSleep + (IF Has(r.ev, "restart") THEN RestartSleep ELSE 0)
    /\ temp' = tp1
    /\ tc_status' = TrackerAddAll(tc_status, oks, 1)
    /\ run_ticks' = <<>>
    /\ pause_ticks' = <<>>
    /\ UNCHANGED <<cfg, runs, disk_vars, lib_vars>>

\* one iteration of Oven.run with state PAUSED
TickPaused(tp1, oks) ==
    /\ oven.state = "PAUSED"
    /\ ClockOpen
    /\ LET r == paused_branch(World(<<"tick", "PAUSED">>), now, temp, now + TimeStep, tp1,
                              TrackerAddAll(tc_status, oks, 1))
       IN  /\ Commit(r)
           /\ pause_ticks' = Append(pause_ticks, [t |-> now + TimeStep, temp |-> tp1, duty |-> r.duty])
    /\ now' = now + TimeStep
    /\ temp' = tp1
    /\ tc_status' = TrackerAddAll(tc_status, oks, 1)
    /\ run_ticks' = <<>>
    /\ UNCHANGED <<cfg, runs, disk_vars, lib_vars>>

\* one iteration of Oven.run with state RUNNING
TickRunning(tp1, oks) ==
    /\ oven.state = "RUNNING"
    /\ ClockOpen
    /\ LET r == running_branch(World(<<"tick", "RUNNING">>), now, temp, now + TimeStep, tp1,
                               TrackerAddAll(tc_status, oks, 1))
       IN  /\ Commit(r)
           /\ run_ticks' = Append(run_ticks, [t |-> now + TimeStep, temp |-> tp1, duty |-> r.duty])
    /\ pause_ticks' = <<>>
    /\ now' = now + TimeStep
    /\ temp' = tp1
    /\ tc_status' = TrackerAddAll(tc_status, oks, 1)
    /\ UNCHANGED <<cfg, runs, disk_vars, lib_vars>>

\* handle_api, cmd == 'run' (startat 0)
Run(name) ==
    /\ runs < MaxRuns
    /\ Commit(run_profile(World(<<"cmd", "run">>), name, 0, now, temp))
    /\ runs' = runs + 1
    /\ run_ticks' = <<>>
    /\ pause_ticks' = <<>>
    /\ UNCHANGED <<now, temp, tc_status, cfg, disk_vars, lib_vars>>

\* handle_api, cmd == 'pause'
Pause ==
    /\ Commit(handle_pause(World(<<"cmd", "pause">>)))
    /\ UNCHANGED <<now, temp, tc_status, cfg, runs, run_ticks, pause_ticks, disk_vars, lib_vars>>

\* handle_api, cmd == 'resume'
Resume ==
    /\ Commit(handle_resume(World(<<"cmd", "resume">>)))
    /\ UNCHANGED <<now, temp, tc_status, cfg, runs, run_ticks, pause_ticks, disk_vars, lib_vars>>

\* handle_api, cmd == 'stop'
Stop ==
    /\ Commit(abort_run(World(<<"cmd", "stop">>), now))
    /\ UNCHANGED <<now, temp, tc_status, cfg, runs, run_ticks, pause_ticks, disk_vars, lib_vars>>

Next ==
    \/ \E tp1 \in Temps, oks \in Samples : TickIdle(tp1, oks)
    \/ \E tp1 \in Temps, oks \in Samples : TickPaused(tp1, oks)
    \/ \E tp1 \in Temps, oks \in Samples : TickRunning(tp1, oks)
    \/ \E name \in ProfileNames : Run(name)
    \/ Pause
    \/ Resume
    \/ Stop

Spec == Init /\ [][Next]_vars

-----------------------------------------------------------------------------
(* Reading the journal of the last action *)

\* the last action found the engine RUNNING or PAUSED and left it IDLE
LeftForIdle ==
    /\ Len(events) >= 2
    /\ events[2] \in {<<"from", "RUNNING">>, <<"from", "PAUSED">>}
    /\ oven.state = "IDLE"

\* the last action was a control tick that found the engine RUNNING or PAUSED
ActiveTick ==
    /\ Len(events) >= 2
    /\ events[1] \in {<<"tick", "RUNNING">>, <<"tick", "PAUSED">>}

\* the positions of the journal that hold the entry e
At(e) == {i \in DOMAIN events : events[i] = e}

\* the positions of the journal that hold an entry of the kind
AtKind(kind) == {i \in DOMAIN events : events[i][1] = kind}

\* the first position of a non-empty set of positions
First(S) == CHOOSE i \in S : \A j \in S : i <= j

\* the last position of a non-empty set of positions
Last(S) == CHOOSE i \in S : \A j \in S : j <= i

-----------------------------------------------------------------------------
(* C1 *)

\* C1: on every path that takes the engine from RUNNING or PAUSED to IDLE (STOP,
\* interlock abort, v1 schedule end, v2 last-segment completion), with restart
\* snapshots enabled, the transition writes a final restart snapshot and the relay
\* has been commanded off before that snapshot is written.
C1_RelayOffBeforeFinalSnapshot ==
    (LeftForIdle /\ cfg.automatic_restarts) =>
        /\ AtKind("snapshot") # {}
        /\ Last(AtKind("snapshot")) > First(At(<<"state", "IDLE">>))
        /\ \E j \in At(<<"relay", "off">>) : j < Last(AtKind("snapshot"))

-----------------------------------------------------------------------------
(* C2, C3 *)

\* the interlocks that aborted during the last action
Aborts == {events[i][2] : i \in AtKind("abort")}

\* the last action wrote the firing log and the engine was set IDLE after it
LoggedThenIdle(status) ==
    /\ oven.state = "IDLE"
    /\ At(<<"log", status>>) # {}
    /\ At(<<"state", "IDLE">>) # {}
    /\ First(At(<<"log", status>>)) < Last(At(<<"state", "IDLE">>))

\* C2: a RUNNING or PAUSED tick whose interlock check reads a temperature of at
\* least emergency_shutoff_temp, with ignore_temp_too_high false, ends IDLE after
\* writing the firing log emergency_stop; with ignore_temp_too_high true the
\* overtemperature interlock never aborts, so a change of state in such a tick is
\* the work of the schedule end or of another interlock.
C2_OvertempAborts ==
    ActiveTick =>
        /\ (temp + ThermocoupleOffset >= EmergencyShutoffTemp /\ ~cfg.ignore_temp_too_high)
               => LoggedThenIdle("emergency_stop")
        /\ (temp + ThermocoupleOffset >= EmergencyShutoffTemp /\ cfg.ignore_temp_too_high)
               => /\ "overtemp" \notin Aborts
                  /\ oven.state # events[2][2]
                         => (At(<<"log", "completed">>) # {} \/ Aborts # {})

\* a tick aborted by the overtemperature interlock alone
C2_Witness ==
    /\ ActiveTick
    /\ temp + ThermocoupleOffset >= EmergencyShutoffTemp
    /\ ~cfg.ignore_temp_too_high
    /\ ~over_error_limit(tc_status)
    /\ Aborts = {"overtemp"}
    /\ LoggedThenIdle("emergency_stop")

\* C3: a RUNNING or PAUSED tick whose interlock check finds the thermocouple error
\* rate over its limit, with ignore_tc_too_many_errors false, ends IDLE after
\* writing the firing log emergency_stop; with ignore_tc_too_many_errors true the
\* error-rate interlock never aborts, so a change of state in such a tick is the
\* work of the schedule end or of another interlock.
C3_ErrorRateAborts ==
    ActiveTick =>
        /\ (over_error_limit(tc_status) /\ ~cfg.ignore_tc_too_many_errors)
               => LoggedThenIdle("emergency_stop")
        /\ (over_error_limit(tc_status) /\ cfg.ignore_tc_too_many_errors)
               => /\ "tc_errors" \notin Aborts
                  /\ oven.state # events[2][2]
                         => (At(<<"log", "completed">>) # {} \/ Aborts # {})

\* a PAUSED tick aborted by the error-rate interlock alone
C3_Witness ==
    /\ events # <<>>
    /\ events[1] = <<"tick", "PAUSED">>
    /\ over_error_limit(tc_status)
    /\ ~cfg.ignore_tc_too_many_errors
    /\ temp + ThermocoupleOffset < EmergencyShutoffTemp
    /\ Aborts = {"tc_errors"}
    /\ LoggedThenIdle("emergency_stop")

-----------------------------------------------------------------------------
(* C4, C5 *)

\* the last action was a RUNNING tick whose schedule did not end, so that the
\* engine was still RUNNING when the interlock check ran
RunningTick ==
    /\ events # <<>>
    /\ events[1] = <<"tick", "RUNNING">>
    /\ At(<<"log", "completed">>) = {}

\* the duty stayed above 0.95 on every RUNNING tick from the i-th of the run to the last
HighDutyFrom(i) == \A k \in i..Len(run_ticks) : run_ticks[k].duty > 95

\* the duty stayed below 0.05 on every RUNNING tick from the i-th of the run to the last
LowDutyFrom(i) == \A k \in i..Len(run_ticks) : run_ticks[k].duty < 5

\* seconds from the interlock check of the i-th tick to that of the last
SpanTime(i) == run_ticks[Len(run_ticks)].t - run_ticks[i].t

\* the rise of the temperature from the interlock check of the i-th tick to that of the last
SpanRise(i) == run_ticks[Len(run_ticks)].temp - run_ticks[i].temp

\* C4 as stated: while RUNNING, whenever the duty has been above 0.95 on every tick
\* of a span longer than stall_detect_time and the temperature at the end of the
\* span is less than stall_min_temp_rise above the temperature at its start, the
\* tick writes the firing log stalled and the engine becomes IDLE.
C4_StallAnySpan ==
    RunningTick =>
        \A i \in 1..Len(run_ticks) :
            (HighDutyFrom(i) /\ SpanTime(i) > StallDetectTime /\ SpanRise(i) < StallMinTempRise)
                => LoggedThenIdle("stalled")

\* the i-th tick is the one that armed the stall timer: the first of the ticks with
\* the duty above 0.95 that run to the last tick
StallArmedAt(i) ==
    /\ HighDutyFrom(i)
    /\ i = 1 \/ run_ticks[i - 1].duty <= 95

\* C4 amended: the span is measured from the tick that armed the stall timer (the
\* first tick of the unbroken run of ticks with the duty above 0.95), and the tick
\* that ends it writes the firing log stalled, or emergency_stop when the
\* overtemperature or error-rate interlock fires on that tick, and leaves the engine IDLE.
C4_StallFromArming ==
    RunningTick =>
        \A i \in 1..Len(run_ticks) :
            (StallArmedAt(i) /\ SpanTime(i) > StallDetectTime /\ SpanRise(i) < StallMinTempRise)
                => (LoggedThenIdle("stalled") \/ LoggedThenIdle("emergency_stop"))

\* a tick aborted by the stall interlock
C4_Witness ==
    /\ RunningTick
    /\ \E i \in 1..Len(run_ticks) :
           StallArmedAt(i) /\ SpanTime(i) > StallDetectTime /\ SpanRise(i) < StallMinTempRise
    /\ Aborts = {"stall"}
    /\ LoggedThenIdle("stalled")

\* C5 as stated: while RUNNING, whenever the duty has been below 0.05 on every tick
\* of a span longer than runaway_detect_time and the temperature rose by more than
\* runaway_min_temp_rise over the span, the tick writes the firing log runaway and
\* the engine becomes IDLE.
C5_RunawayAnySpan ==
    RunningTick =>
        \A i \in 1..Len(run_ticks) :
            (LowDutyFrom(i) /\ SpanTime(i) > RunawayDetectTime /\ SpanRise(i) > RunawayMinTempRise)
                => LoggedThenIdle("runaway")

\* the i-th tick is the one that armed the runaway timer
RunawayArmedAt(i) ==
    /\ LowDutyFrom(i)
    /\ i = 1 \/ run_ticks[i - 1].duty >= 5

\* C5 amended: the span is measured from the tick that armed the runaway timer (the
\* first tick of the unbroken run of ticks with the duty below 0.05), and the tick
\* that ends it writes the firing log runaway, or emergency_stop when the
\* overtemperature or error-rate interlock fires on that tick, and leaves the engine IDLE.
C5_RunawayFromArming ==
    RunningTick =>
        \A i \in 1..Len(run_ticks) :
            (RunawayArmedAt(i) /\ SpanTime(i) > RunawayDetectTime /\ SpanRise(i) > RunawayMinTempRise)
                => (LoggedThenIdle("runaway") \/ LoggedThenIdle("emergency_stop"))

\* a tick aborted by the runaway interlock
C5_Witness ==
    /\ RunningTick
    /\ \E i \in 1..Len(run_ticks) :
           RunawayArmedAt(i) /\ SpanTime(i) > RunawayDetectTime /\ SpanRise(i) > RunawayMinTempRise
    /\ Aborts = {"runaway"}
    /\ LoggedThenIdle("runaway")

-----------------------------------------------------------------------------
(* C6 *)

-----------------------------------------------------------------------------
(* C7 *)

\* C7: with restart snapshots enabled, a transition from RUNNING or PAUSED to IDLE
\* by abort or by schedule completion writes the snapshot whatever the time since
\* the last write, so that the snapshot on disk records the state IDLE.
C7_CriticalSnapshotWritten ==
    (LeftForIdle /\ cfg.automatic_restarts) =>
        /\ At(<<"snapshot", "IDLE">>) # {}
        /\ state_file.exists
        /\ state_file.state = "IDLE"

-----------------------------------------------------------------------------
(* C8 *)

\* the firing log status that belongs to an interlock
StatusOf(why) ==
    IF why \in {"overtemp", "tc_errors"} THEN "emergency_stop"
    ELSE IF why = "stall" THEN "stalled"
    ELSE "runaway"

\* the firing log status that belongs to the cause of the engine's first becoming
\* IDLE in the last action: STOP, an interlock, or else the end of the schedule
ExpectedStatus ==
    IF events[1] = <<"cmd", "stop">> THEN "aborted"
    ELSE IF \E i \in AtKind("abort") : i < First(At(<<"state", "IDLE">>))
    THEN StatusOf(events[First(AtKind("abort"))][2])
    ELSE "completed"

\* C8: in every transition from RUNNING or PAUSED to IDLE (schedule end, STOP or
\* interlock abort) a firing log with the status of the cause is written before
\* the state becomes IDLE.
C8_LogBeforeIdle ==
    LeftForIdle =>
        /\ At(<<"state", "IDLE">>) # {}
        /\ \E j \in At(<<"log", ExpectedStatus>>) : j < First(At(<<"state", "IDLE">>))

\* a PAUSED firing aborted by an interlock, its log emergency_stop written first
C8_Witness ==
    /\ LeftForIdle
    /\ events[1] = <<"tick", "PAUSED">>
    /\ Aborts # {}
    /\ At(<<"log", "emergency_stop">>) # {}
    /\ First(At(<<"log", "emergency_stop">>)) < First(At(<<"state", "IDLE">>))

-----------------------------------------------------------------------------
(* C9 *)

\* C9: when a STOP or an interlock abort has completed, the state is IDLE, the
\* target is 0, the PID integral is 0 and the relay is commanded off.
C9_QuiescentAfterAbort ==
    (events # <<>> /\ (events[1] = <<"cmd", "stop">> \/ Aborts # {})) =>
        /\ oven.state = "IDLE"
        /\ oven.target = 0
        /\ pid.iterm = 0
        /\ relay = "off"
        /\ AtKind("relay") # {}
        /\ events[Last(AtKind("relay"))] = <<"relay", "off">>

\* a stall abort on a tick that had left the relay on at full duty
C9_Witness ==
    /\ Aborts = {"stall"}
    /\ At(<<"relay", "on">>) # {}
    /\ oven.state = "IDLE"
    /\ oven.target = 0
    /\ pid.iterm = 0
    /\ relay = "off"

-----------------------------------------------------------------------------
(* C10 *)

States == {"IDLE", "RUNNING", "PAUSED"}

\* the step is a pause or a resume that the handler rejects, and rejects without effect
RejectedAsStated ==
    /\ (events'[1] = <<"cmd", "pause">> /\ oven.state # "RUNNING")
           => (oven'.state = oven.state /\ HasEv(events', "rejected", "pause"))
    /\ (events'[1] = <<"cmd", "resume">> /\ oven.state # "PAUSED")
           => (oven'.state = oven.state /\ HasEv(events', "rejected", "resume"))

\* the changes of state the claim lists
ChangeAsStated ==
    \/ oven'.state = oven.state
    \/ /\ oven.state = "IDLE" /\ oven'.state = "RUNNING"
       /\ events'[1] = <<"cmd", "run">> \/ Has(events', "restart")
    \/ /\ oven.state = "RUNNING" /\ oven'.state = "PAUSED"
       /\ events'[1] = <<"cmd", "pause">>
    \/ /\ oven.state = "PAUSED" /\ oven'.state = "RUNNING"
       /\ events'[1] = <<"cmd", "resume">>
    \/ /\ oven.state \in {"RUNNING", "PAUSED"} /\ oven'.state = "IDLE"
       /\ \/ HasEv(events', "log", "completed")
          \/ events'[1] = <<"cmd", "stop">>
          \/ Has(events', "abort")

\* C10 as stated: the state is always IDLE, RUNNING or PAUSED and changes only
\* IDLE to RUNNING (run command, automatic restart), RUNNING to PAUSED (pause),
\* PAUSED to RUNNING (resume), RUNNING or PAUSED to IDLE (schedule end, STOP,
\* interlock abort); a pause when not RUNNING and a resume when not PAUSED are
\* rejected and leave the state unchanged.
C10_TransitionsAsStated ==
    [][oven'.state \in States /\ ChangeAsStated /\ RejectedAsStated]_vars

\* C10 amended: as stated, and a run command also takes PAUSED to RUNNING
\* (run_profile starts the firing from any state).
C10_Transitions ==
    [][/\ oven'.state \in States
       /\ \/ ChangeAsStated
          \/ /\ oven.state = "PAUSED" /\ oven'.state = "RUNNING"
             /\ events'[1] = <<"cmd", "run">>
       /\ RejectedAsStated]_vars

\* a pause command rejected while the engine is IDLE
C10_Witness ==
    /\ Len(events) >= 2
    /\ events[1] = <<"cmd", "pause">>
    /\ events[2] = <<"from", "IDLE">>
    /\ HasEv(events, "rejected", "pause")
    /\ oven.state = "IDLE"

-----------------------------------------------------------------------------
(* C11 *)

\* the last action was a PAUSED tick whose interlock check found the engine PAUSED
PausedTick ==
    /\ events # <<>>
    /\ events[1] = <<"tick", "PAUSED">>

\* seconds from the interlock check of the i-th PAUSED tick to that of the last
PauseSpanTime(i) == pause_ticks[Len(pause_ticks)].t - pause_ticks[i].t

\* the rise of the temperature from the i-th PAUSED tick to the last
PauseSpanRise(i) == pause_ticks[Len(pause_ticks)].temp - pause_ticks[i].temp

\* the i-th PAUSED tick opens the unbroken run of PAUSED ticks with the duty above
\* 0.95 that runs to the last one: the tick that would arm the stall timer
PauseStallArmedAt(i) ==
    /\ \A k \in i..Len(pause_ticks) : pause_ticks[k].duty > 95
    /\ i = 1 \/ pause_ticks[i - 1].duty <= 95

\* the i-th PAUSED tick opens the unbroken run of PAUSED ticks with the duty below
\* 0.05 that runs to the last one: the tick that would arm the runaway timer
PauseRunawayArmedAt(i) ==
    /\ \A k \in i..Len(pause_ticks) : pause_ticks[k].duty < 5
    /\ i = 1 \/ pause_ticks[i - 1].duty >= 5

\* a stall condition has arisen over the PAUSED ticks
PauseStalled ==
    \E i \in 1..Len(pause_ticks) :
        PauseStallArmedAt(i) /\ PauseSpanTime(i) > StallDetectTime
                             /\ PauseSpanRise(i) < StallMinTempRise

\* a runaway condition has arisen over the PAUSED ticks
PauseRanAway ==
    \E i \in 1..Len(pause_ticks) :
        PauseRunawayArmedAt(i) /\ PauseSpanTime(i) > RunawayDetectTime
                               /\ PauseSpanRise(i) > RunawayMinTempRise

\* the overtemperature or the error-rate interlock finds its condition on the last tick
EmergencyStopDue ==
    \/ temp + ThermocoupleOffset >= EmergencyShutoffTemp /\ ~cfg.ignore_temp_too_high
    \/ over_error_limit(tc_status) /\ ~cfg.ignore_tc_too_many_errors

\* C11 as stated: while PAUSED the four interlocks keep running; an overtemperature,
\* error-rate, stall or runaway condition that arises over PAUSED ticks aborts the
\* run to IDLE with its firing log, just as it does while RUNNING.
C11_AllInterlocksWhilePaused ==
    PausedTick =>
        /\ EmergencyStopDue => LoggedThenIdle("emergency_stop")
        /\ PauseStalled => (LoggedThenIdle("stalled") \/ LoggedThenIdle("emergency_stop"))
        /\ PauseRanAway => (LoggedThenIdle("runaway") \/ LoggedThenIdle("emergency_stop"))

\* C11 amended: while PAUSED the overtemperature and the error-rate interlock keep
\* running and abort the run to IDLE with the firing log emergency_stop, just as
\* while RUNNING; the stall and the runaway interlock are not evaluated while
\* PAUSED: a PAUSED tick never aborts for a stall or a runaway and leaves both
\* timers cleared.
C11_EmergencyStopWhilePaused ==
    PausedTick =>
        /\ EmergencyStopDue => LoggedThenIdle("emergency_stop")
        /\ "stall" \notin Aborts
        /\ "runaway" \notin Aborts
        /\ oven.stall_start_time = None
        /\ oven.runaway_start_time = None
        /\ ~EmergencyStopDue => Aborts = {}

\* a stall condition has arisen over PAUSED ticks and the engine is still PAUSED
C11_Witness ==
    /\ PausedTick
    /\ PauseStalled
    /\ ~EmergencyStopDue
    /\ oven.state = "PAUSED"
    /\ Aborts = {}

-----------------------------------------------------------------------------
(* C12 *)

\* the step is a PAUSED tick of time-based (v1) control
PausedTickStepV1 ==
    /\ ~RateBased
    /\ oven.state = "PAUSED"
    /\ events' # <<>>
    /\ events'[1] = <<"tick", "PAUSED">>

\* the step is the first RUNNING tick after an accepted resume, in v1 control
ResumedTickStepV1 ==
    /\ ~RateBased
    /\ oven.state = "RUNNING"
    /\ events = <<<<"cmd", "resume">>, <<"from", "PAUSED">>, <<"state", "RUNNING">> >>
    /\ events'[1] = <<"tick", "RUNNING">>

\* C12: while PAUSED under time-based (v1) control the schedule clock is frozen: a
\* PAUSED tick leaves runtime as it was, the target is the schedule's target at that
\* runtime, and the tick never ends the schedule; the first RUNNING tick after the
\* resume finds runtime at most one tick beyond the runtime of the pause.
C12_ClockFrozenWhilePaused ==
    [][ /\ PausedTickStepV1 =>
            /\ ~HasEv(events', "log", "completed")
            /\ oven'.state = "PAUSED" =>
                   /\ oven'.runtime = oven.runtime
                   /\ oven'.target = get_target_temperature(ProfileOf(oven.profile), oven.runtime)
        /\ (ResumedTickStepV1 /\ oven'.state = "RUNNING") =>
               /\ oven'.runtime >= oven.runtime
               /\ oven'.runtime <= oven.runtime + TimeStep
      ]_vars

\* a v1 run paused in mid-schedule, held for two PAUSED ticks and resumed
C12_Witness ==
    /\ ~RateBased
    /\ events = <<<<"cmd", "resume">>, <<"from", "PAUSED">>, <<"state", "RUNNING">> >>
    /\ Len(pause_ticks) >= 2
    /\ oven.runtime > 0
    /\ oven.runtime < oven.totaltime

-----------------------------------------------------------------------------
(* C13 *)

\* the step is a PAUSED tick of rate-based (v2) control that leaves the engine PAUSED
PausedTickStepV2 ==
    /\ RateBased
    /\ oven.state = "PAUSED"
    /\ events' # <<>>
    /\ events'[1] = <<"tick", "PAUSED">>
    /\ oven'.state = "PAUSED"

\* C13: while PAUSED under rate-based (v2) control the schedule clock is frozen: over
\* a PAUSED tick the elapsed ramp time of the segment (the time since
\* segment_start_time, which drives the rate ceiling) and the elapsed hold time (the
\* time since hold_start_time) do not advance, so that the target and the remaining
\* hold after the resume are those of the moment of the pause.
C13_SegmentClockFrozenWhilePaused ==
    [][ PausedTickStepV2 =>
            /\ oven.segment_start_time # None =>
                   now' - oven'.segment_start_time = now - oven.segment_start_time
            /\ oven.hold_start_time # None =>
                   now' - oven'.hold_start_time = now - oven.hold_start_time
      ]_vars

-----------------------------------------------------------------------------
(* C14 *)

\* the snapshot on disk makes a restart due: restarts are enabled, the file exists,
\* it was written within the restart window and it records the state RUNNING
RestartEligible ==
    /\ cfg.automatic_restarts
    /\ state_file.exists
    /\ now - state_file.mtime <= AutomaticRestartWindow * SecondsPerMinute
    /\ state_file.state = "RUNNING"

\* C14: a tick of the IDLE loop performs an automatic restart if and only if
\* automatic_restarts is enabled, the snapshot file exists, its mtime is within
\* automatic_restart_window minutes and its state field is RUNNING; a restart is
\* never started by a step that finds the engine RUNNING or PAUSED.
C14_RestartIffEligible ==
    [][ /\ (events' # <<>> /\ events'[1] = <<"tick", "IDLE">>)
               => (Has(events', "restart") <=> RestartEligible)
        /\ (events' # <<>> /\ Has(events', "restart"))
               => (oven.state = "IDLE" /\ events'[1] = <<"tick", "IDLE">>)
      ]_vars

\* an IDLE tick restarted the run from a snapshot this process wrote itself
C14_Witness ==
    /\ events # <<>>
    /\ events[1] = <<"tick", "IDLE">>
    /\ Has(events, "restart")
    /\ oven.state = "RUNNING"
    /\ runs > 0

-----------------------------------------------------------------------------
(* C15 *)

\* the step is an automatic restart under v2 control from a snapshot taken in a hold
RestartIntoHoldStep ==
    /\ RateBased
    /\ events' # <<>>
    /\ Has(events', "restart")
    /\ state_file.has_segment
    /\ state_file.segment_phase = "hold"

\* the step is a RUNNING tick under v2 control that finds a hold and ends it
HoldEndsStep ==
    /\ RateBased
    /\ oven.state = "RUNNING"
    /\ oven.segment_phase = "hold"
    /\ events' # <<>>
    /\ events'[1] = <<"tick", "RUNNING">>
    /\ \/ HasEv(events', "log", "completed")
       \/ oven'.current_segment_index > oven.current_segment_index

\* the step leaves the engine in the hold it found, without a restart or a new run
HoldGoesOnStep ==
    /\ RateBased
    /\ oven.state # "IDLE" /\ oven'.state # "IDLE"
    /\ oven.segment_phase = "hold" /\ oven'.segment_phase = "hold"
    /\ oven'.current_segment_index = oven.current_segment_index
    /\ ~Has(events', "restart") /\ ~HasEv(events', "cmd", "run")

-----------------------------------------------------------------------------
(* Oven.save_state step by step, with a reader of the snapshot file *)

\* what is on disk when the engine, RUNNING since StartClock, comes to write
SaveFiles ==
    {<<NoDir, NoFiles>>,
     <<[NoDir EXCEPT !.state = 1],
       [NoFiles EXCEPT ![1] = FileOf("full", LeftSnapshot(BaseConfig, StartClock - 1, "ramp"))]>>}

InitSave ==
    /\ cfg = BaseConfig
    /\ oven = run_profile([oven |-> InitOven, pid |-> NewPID(StartClock), relay |-> "off",
                           file |-> NoFile, logs |-> <<>>, ev |-> <<>>, duty |-> None],
                          "p1", 0, StartClock, 20).oven
    /\ pid = NewPID(StartClock)
    /\ relay = "off"
    /\ state_file = NoFile
    /\ firing_logs = <<>>
    /\ now = StartClock
    /\ temp = 20
    /\ tc_status = TrackerInit
    /\ runs = 1
    /\ events = <<>>
    /\ cause = "run"
    /\ run_ticks = <<>>
    /\ pause_ticks = <<>>
    /\ \E f \in SaveFiles :
           /\ dir = f[1]
           /\ files = f[2]
           /\ wr = InitWriter(IF f[1].state = 0 THEN Free ELSE f[2][f[1].state], oven)
    /\ rd = InitReader
    /\ call = NoCall

\* the steps of the writer leave their world in the variables
PutDisk(d) ==
    /\ dir' = d.dir
    /\ files' = d.files
    /\ wr' = d.wr

\* a step of save_state failed: the exception takes it to the handler
Raise(d, exc) == [d EXCEPT !.wr.pc = "except", !.wr.exc = exc]

\* the control loop goes round once between two writes: time passes and runtime with it
LoopRound ==
    /\ wr.pc = "idle"
    /\ now - StartClock < wr.saves + 1
    /\ now' = now + TimeStep
    /\ oven' = update_runtime(World(<<"tick", "RUNNING">>), now + TimeStep).oven
    /\ UNCHANGED <<pid, relay, state_file, firing_logs, temp, tc_status, cfg, runs, events,
                   cause, run_ticks, pause_ticks, disk_vars, lib_vars>>

\* save_automatic_restart_state calls save_state
SaveEnter ==
    /\ wr.pc = "idle"
    /\ wr.saves < MaxSaves
    /\ wr' = [wr EXCEPT !.pc = "mkstemp", !.fd = 0, !.temp_path = "", !.exc = "",
                        !.failed = FALSE, !.raised = FALSE,
                        !.before = StateFileOf(Disk), !.engine = oven]
    /\ UNCHANGED <<engine_vars, dir, files, rd, lib_vars>>

\* save_state: tempfile.mkstemp
SaveMkstemp(ok) ==
    /\ wr.pc = "mkstemp"
    /\ PutDisk(IF ok THEN [mkstemp(Disk) EXCEPT !.wr.pc = "dump"] ELSE Raise(Disk, "OSError"))
    /\ UNCHANGED <<engine_vars, rd, lib_vars>>

\* save_state: os.fdopen, and json.dump(self.get_state(), f) as far as part of the document
SaveDumpBegin(ok, exc) ==
    /\ wr.pc = "dump"
    /\ LET snapshot == [get_state(World(<<"tick", "RUNNING">>)) EXCEPT !.mtime = now]
           d == json_dump_begin(Disk, snapshot)
       IN  PutDisk(IF ok THEN [d EXCEPT !.wr.pc = "dump_rest"] ELSE Raise(d, exc))
    /\ UNCHANGED <<engine_vars, rd, lib_vars>>

\* save_state: the rest of json.dump, and f.flush
SaveDumpEnd(ok) ==
    /\ wr.pc = "dump_rest"
    /\ PutDisk(IF ok THEN [json_dump_end(Disk) EXCEPT !.wr.pc = "fsync"] ELSE Raise(Disk, "OSError"))
    /\ UNCHANGED <<engine_vars, rd, lib_vars>>

\* save_state: os.fsync, and the file is closed
SaveFsync(ok) ==
    /\ wr.pc = "fsync"
    /\ PutDisk(IF ok THEN [Disk EXCEPT !.wr.pc = "replace"] ELSE Raise(Disk, "OSError"))
    /\ UNCHANGED <<engine_vars, rd, lib_vars>>

\* save_state: os.replace
SaveReplace(ok) ==
    /\ wr.pc = "replace"
    /\ PutDisk(IF ok THEN [os_replace(Disk) EXCEPT !.wr.pc = "return"] ELSE Raise(Disk, "OSError"))
    /\ UNCHANGED <<engine_vars, rd, lib_vars>>

\* save_state: the handler "except Exception", which logs and removes the temp file
SaveExcept ==
    /\ wr.pc = "except"
    /\ PutDisk([cleanup(Disk) EXCEPT !.wr.pc = "return", !.wr.failed = TRUE,
                                     !.wr.raised = ~caught(wr.exc)])
    /\ UNCHANGED <<engine_vars, rd, lib_vars>>

\* save_state has returned: save_automatic_restart_state notes the time and returns
SaveReturn ==
    /\ wr.pc = "return"
    /\ wr' = [wr EXCEPT !.pc = "idle", !.saves = @ + 1]
    /\ oven' = IF wr.raised THEN oven ELSE [oven EXCEPT !.last_state_save = now]
    /\ UNCHANGED <<pid, relay, state_file, firing_logs, now, temp, tc_status, cfg, runs,
                   events, cause, run_ticks, pause_ticks, dir, files, rd, lib_vars>>

\* should_i_automatic_restart: open(automatic_restart_state_file)
ReaderOpen ==
    /\ rd.fd = 0
    /\ rd.reads < MaxReads
    /\ dir.state # 0
    /\ rd' = [rd EXCEPT !.fd = dir.state]
    /\ UNCHANGED <<engine_vars, dir, files, wr, lib_vars>>

\* should_i_automatic_restart: json.load reads the open file to its end
ReaderLoad ==
    /\ rd.fd # 0
    /\ rd' = [rd EXCEPT !.fd = 0, !.seen = files[rd.fd], !.reads = @ + 1]
    /\ UNCHANGED <<engine_vars, dir, files, wr, lib_vars>>

NextSave ==
    \/ LoopRound
    \/ SaveEnter
    \/ \E ok \in BOOLEAN : SaveMkstemp(ok)
    \/ \E ok \in BOOLEAN, exc \in Exceptions : SaveDumpBegin(ok, exc)
    \/ \E ok \in BOOLEAN : SaveDumpEnd(ok)
    \/ \E ok \in BOOLEAN : SaveFsync(ok)
    \/ \E ok \in BOOLEAN : SaveReplace(ok)
    \/ SaveExcept
    \/ SaveReturn
    \/ ReaderOpen
    \/ ReaderLoad

SpecSave == InitSave /\ [][NextSave]_vars

-----------------------------------------------------------------------------
(* C16 *)

\* C16: a reader of the snapshot file, whenever it opens and reads the file while
\* save_state is at work, reads a whole snapshot: the one the file held before or
\* one that a save_state has put in its place, never a part of a document.
C16_ReaderSeesWholeSnapshot ==
    rd.seen # Free =>
        /\ rd.seen.text = "full"
        /\ rd.seen.data \in wr.installed

\* a reader that opened the file before os.replace and read it after has the whole
\* previous snapshot, the new one being in place
C16_Witness ==
    /\ rd.seen # Free
    /\ rd.seen.text = "full"
    /\ dir.state # 0
    /\ files[dir.state].text = "full"
    /\ files[dir.state].data # rd.seen.data
    /\ wr.saves >= 1

-----------------------------------------------------------------------------
(* C17 *)

\* C17: when a step of save_state has failed (the creation of the temp file, the
\* serialisation, the fsync or the rename), save_state returns with the temp file
\* removed, the snapshot file as it was before the call, no exception on its way
\* to the control loop and the fields of the engine as they were.
C17_FailedSaveLeavesNoTrace ==
    (wr.pc = "return" /\ wr.failed) =>
        /\ dir.tmp = 0
        /\ \A i \in FileIds : i # dir.state => files[i].text \in {"free", "full"}
        /\ StateFileOf(Disk) = wr.before
        /\ ~wr.raised
        /\ oven = wr.engine

\* a write that failed after the temp file had been written, over a snapshot that
\* an earlier write of this process had put in place
C17_Witness ==
    /\ wr.pc = "return"
    /\ wr.failed
    /\ wr.temp_path # ""
    /\ wr.saves >= 1
    /\ wr.before.text = "full"
    /\ StateFileOf(Disk) = wr.before

-----------------------------------------------------------------------------
(* Run requests for the v2 files of the profile store, under rate-based control *)

InitStore ==
    /\ Init
    /\ cfg.use_rate_based_control

\* handle_api, cmd == 'run' (startat 0), for a file of the profile store
RunStored(file) ==
    /\ runs < MaxRuns
    /\ LET r == handle_run(Ev(World(<<"cmd", "run">>), "wanted", file.name), file, now, temp)
       IN  /\ Commit(r)
           /\ runs' = IF Has(r.ev, "raised") THEN runs ELSE runs + 1
           /\ run_ticks' = IF Has(r.ev, "raised") THEN run_ticks ELSE <<>>
           /\ pause_ticks' = IF Has(r.ev, "raised") THEN pause_ticks ELSE <<>>
    /\ UNCHANGED <<now, temp, tc_status, cfg, disk_vars, lib_vars>>

NextStore ==
    \/ \E tp1 \in Temps, oks \in Samples : TickIdle(tp1, oks)
    \/ \E tp1 \in Temps, oks \in Samples : TickPaused(tp1, oks)
    \/ \E tp1 \in Temps, oks \in Samples : TickRunning(tp1, oks)
    \/ \E file \in StoredFiles : RunStored(file)
    \/ Pause
    \/ Resume
    \/ Stop

SpecStore == InitStore /\ [][NextStore]_vars

-----------------------------------------------------------------------------
(* C18 *)

\* a numeric rate of the file points away from its target: down towards a higher
\* target or up towards a lower one, seen from the target before (start_temp at first)
DirectionContradicts(file) ==
    \E i \in 1..Len(file.segments) :
        LET seg == file.segments[i]
            before == IF i = 1 THEN file.start_temp ELSE file.segments[i - 1].target
        IN  /\ seg.kind = "num"
            /\ \/ seg.rate < 0 /\ seg.target > before
               \/ seg.rate > 0 /\ seg.target < before

\* the step is a run request for a file whose Profile cannot be built
BadRunStep ==
    /\ events' # <<>>
    /\ events'[1] = <<"cmd", "run">>
    /\ \E file \in StoredFiles : DirectionContradicts(file) /\ events'[3] = <<"wanted", file.name>>

\* C18: a run request whose Profile cannot be built, a numeric rate of a v2 segment
\* contradicting the direction of its target, never reaches run_profile: the fields
\* of the engine, the controller, the relay, the snapshot and the firing logs are
\* what they were, and the engine is not made RUNNING by it.
C18_BadProfileNeverRuns ==
    [][ BadRunStep =>
            /\ Has(events', "raised")
            /\ ~HasEv(events', "state", "RUNNING")
            /\ oven' = oven /\ pid' = pid /\ relay' = relay
            /\ state_file' = state_file /\ firing_logs' = firing_logs
            /\ runs' = runs /\ cause' = cause
      ]_vars

\* a run request for the file with a rising rate towards a lower target has been
\* turned down in IDLE after an earlier run
C18_Witness ==
    /\ events = << <<"cmd", "run">>, <<"from", "IDLE">>, <<"wanted", "rising_rate_down">>,
                   <<"raised", "ValueError">> >>
    /\ oven.state = "IDLE"
    /\ runs > 0

-----------------------------------------------------------------------------
(* C19 *)

\* the journal holds the firing log completed, and the state IDLE after it
CompletedThenIdle(ev) ==
    \E i, j \in DOMAIN ev : i < j /\ ev[i] = <<"log", "completed">> /\ ev[j] = <<"state", "IDLE">>

-----------------------------------------------------------------------------
(* C20 *)

\* the last action was a RUNNING tick under v2 control that left the engine RUNNING in
\* the ramp of a segment with the rate "cool": the temperature has not yet come
\* down to the target of the segment
CoolRampTick ==
    /\ RateBased
    /\ events # <<>>
    /\ events[1] = <<"tick", "RUNNING">>
    /\ oven.state = "RUNNING"
    /\ oven.segment_phase = "ramp"
    /\ oven.current_segment_index < Len(ProfileOf(oven.profile).segments)
    /\ ProfileOf(oven.profile).segments[oven.current_segment_index + 1].kind = "cool"

\* C20: on every tick taken in the ramp of a v2 segment with the rate "cool" the
\* commanded duty is 0 and the relay is not asserted.
C20_NoHeatInNaturalCool ==
    CoolRampTick =>
        /\ run_ticks[Len(run_ticks)].duty = 0
        /\ ~HasEv(events, "relay", "on")

-----------------------------------------------------------------------------
(* Library functions called on their own: the engine stays as Oven.__init__ left it *)

\* the engine and the snapshot directory of a process that has not started a firing
AtRest ==
    /\ oven = InitOven
    /\ relay = "off"
    /\ state_file = NoFile
    /\ firing_logs = <<>>
    /\ temp = 20
    /\ runs = 0
    /\ events = <<>>
    /\ cause = "init"
    /\ run_ticks = <<>>
    /\ pause_ticks = <<>>
    /\ dir = NoDir
    /\ files = NoFiles
    /\ wr = InitWriter(Free, InitOven)
    /\ rd = InitReader

rest_vars == <<oven, relay, state_file, firing_logs, temp, runs, events, cause, run_ticks,
               pause_ticks, disk_vars>>

-----------------------------------------------------------------------------
(* PID.compute, call after call on one controller *)

\* the configuration with the throttle of the low range set
ThrottledConfig == [BaseConfig EXCEPT !.throttle_below_temp = ThrottleBelowTemp,
                                      !.throttle_percent = ThrottlePercent]

\* setpoints and readings of the calls: errors below, on, inside and above the window
Setpoints == {20, 50, 56, 64, 70, 100}
Ispoints == {20, 60, 100}
\* seconds between two calls
TimeDeltas == {1, 2}

InitPID ==
    /\ AtRest
    /\ cfg \in {BaseConfig, ThrottledConfig}
    /\ pid = NewPID(StartClock)
    /\ now = StartClock
    /\ tc_status = TrackerInit
    /\ call = NoCall

\* PID.compute(setpoint, ispoint, now), timeDelta seconds after the call before
Compute(setpoint, ispoint, timeDelta) ==
    /\ call.n < MaxCalls
    /\ now' = now + timeDelta
    /\ pid' = pid_compute(pid, setpoint, ispoint, now + timeDelta)
    /\ call' = [fn |-> "compute", n |-> call.n + 1, setpoint |-> setpoint, ispoint |-> ispoint,
                timeDelta |-> timeDelta, before |-> pid]
    /\ UNCHANGED <<rest_vars, cfg, tc_status>>

NextPID == \E setpoint \in Setpoints, ispoint \in Ispoints, timeDelta \in TimeDeltas :
               Compute(setpoint, ispoint, timeDelta)

SpecPID == InitPID /\ [][NextPID]_vars

\* the error of the call last made
CallError == call.setpoint - call.ispoint

-----------------------------------------------------------------------------
(* C21 *)

\* C21: after a PID.compute call with error = setpoint - process value below
\* -pid_control_window the returned output is 0 and the integral term is <= 0: a
\* positive integral term has been reset to 0, a non-positive one is as it was.
C21_MaxCooling ==
    (call.fn = "compute" /\ CallError < 0 - PidControlWindow) =>
        /\ pid.out = 0
        /\ pid.iterm <= 0
        /\ call.before.iterm > 0 => pid.iterm = 0
        /\ call.before.iterm <= 0 => pid.iterm = call.before.iterm

\* a call below the window that found a positive integral term
C21_Witness ==
    /\ call.fn = "compute"
    /\ CallError < 0 - PidControlWindow
    /\ call.before.iterm > 0
    /\ pid.iterm = 0

-----------------------------------------------------------------------------
(* C22 *)

\* throttling is configured and the setpoint of the call is in the throttled range
Throttled ==
    /\ cfg.throttle_below_temp # 0
    /\ cfg.throttle_percent # 0
    /\ call.setpoint <= cfg.throttle_below_temp

\* C22: after a PID.compute call with error above pid_control_window the returned
\* output is throttle_percent/100 when throttling is configured and the setpoint is
\* <= throttle_below_temp, and 1 (100 percent) otherwise; the integral term is as
\* it was before the call.
C22_MaxHeating ==
    (call.fn = "compute" /\ CallError > PidControlWindow) =>
        /\ pid.out = IF Throttled THEN cfg.throttle_percent ELSE 100
        /\ pid.iterm = call.before.iterm

\* a throttled call at the edge of the throttled range, the integral term not zero
C22_Witness ==
    /\ call.fn = "compute"
    /\ CallError > PidControlWindow
    /\ call.setpoint = cfg.throttle_below_temp
    /\ pid.out = ThrottlePercent
    /\ call.before.iterm # 0

-----------------------------------------------------------------------------
(* C23 *)

\* the unclamped sum p + iterm + d of the call last made, from its arguments
CallSum ==
    PidKp * CallError + call.before.iterm
        + PidKd * ((CallError - call.before.lastErr) \div call.timeDelta)

\* C23: after a PID.compute call with |error| <= pid_control_window, the integral
\* term is as it was before the call when the unclamped sum p + iterm + d is outside
\* [-100, +100], and has grown by error * dt / ki when the sum is inside the bounds.
C23_AntiWindup ==
    (call.fn = "compute" /\ Abs(CallError) <= PidControlWindow) =>
        IF CallSum < 0 - PidWindowSize \/ CallSum > PidWindowSize
        THEN pid.iterm = call.before.iterm
        ELSE pid.iterm * PidKi = call.before.iterm * PidKi + CallError * call.timeDelta

\* a saturated call inside the window with an error that would have moved the integral
C23_Witness ==
    /\ call.fn = "compute"
    /\ Abs(CallError) <= PidControlWindow
    /\ CallError # 0
    /\ CallSum > PidWindowSize
    /\ pid.iterm = call.before.iterm
    /\ call.before.iterm # 0

-----------------------------------------------------------------------------
(* ThermocoupleTracker, read after read of the thermocouple *)

\* a sensor that takes five samples a duty cycle: a ring of ten entries
WideSamples == 5

Trackers == {BaseConfig, [BaseConfig EXCEPT !.temperature_average_samples = WideSamples]}

\* how a read of the thermocouple ends: a temperature, a ThermocoupleError of a class
\* the configuration ignores, a ThermocoupleError that counts
Reads == {"temp", "ignored", "error"}

InitTracker ==
    /\ AtRest
    /\ cfg \in Trackers
    /\ pid = NewPID(StartClock)
    /\ now = StartClock
    /\ tc_status = ThermocoupleTracker(cfg)
    /\ call = [fn |-> "init", n |-> 0, outcomes |-> <<>>]

\* TempSensorReal.get_temperature: status.good() or status.bad()
GetTemperature(read) ==
    /\ call.n < MaxSamples
    /\ tc_status' = TrackerAdd(tc_status, read # "error")
    /\ call' = [fn |-> IF read = "error" THEN "bad" ELSE "good", n |-> call.n + 1,
                outcomes |-> Append(call.outcomes, read # "error")]
    /\ UNCHANGED <<rest_vars, cfg, pid, now>>

NextTracker == \E read \in Reads : GetTemperature(read)

SpecTracker == InitTracker /\ [][NextTracker]_vars

-----------------------------------------------------------------------------
(* C24 *)

\* the ring's size under the configuration
RingSize == 2 * cfg.temperature_average_samples

\* every outcome so far, the entries the ring started with counted as good ones
AllOutcomes == [i \in 1..RingSize |-> TRUE] \o call.outcomes

\* the most recent RingSize of them
RecentOutcomes == SubSeq(AllOutcomes, Len(AllOutcomes) - RingSize + 1, Len(AllOutcomes))

\* how many of them are failures
RecentFailures == Cardinality({i \in 1..RingSize : ~RecentOutcomes[i]})

\* C24: after any sequence of good() and bad() calls the fault ring holds exactly
\* 2 * average_samples entries, the most recent outcomes with the initial entries
\* counted as good, and over_error_limit() is true if and only if more than 30% of
\* those entries are failures.
C24_FaultRing ==
    call.fn \in {"init", "good", "bad"} =>
        /\ Len(tc_status) = RingSize
        /\ tc_status = RecentOutcomes
        /\ over_error_limit(tc_status) <=> (RecentFailures * 100 > 30 * RingSize)

\* a ring of ten that has turned over and holds exactly 30% failures: not over the limit
C24_Witness ==
    /\ call.fn = "bad"
    /\ RingSize = 2 * WideSamples
    /\ call.n > RingSize
    /\ ~call.outcomes[1]
    /\ RecentFailures * 100 = 30 * RingSize
    /\ ~over_error_limit(tc_status)

-----------------------------------------------------------------------------
(* C25 *)

\* the step is one of the control loop (Oven.run), not one of a command handler
ControlLoopStep == events' # <<>> /\ events'[1][1] = "tick"

\* C25: every write to a field of the engine's context (state, profile, segment index
\* and phase, runtime, target, cost, arming timestamps) is performed by the
\* control-loop thread: a step that changes a field is a step of Oven.run, never one
\* of a command handler.
C25_ControlLoopSoleWriter == [][oven' # oven => ControlLoopStep]_vars

-----------------------------------------------------------------------------
(* Profile and Segment: their functions called on their own *)

\* rates, and the kinds of rate, a segment of a v2 file comes with
SegmentRates == {0 - 100, 0, 100}
SegmentKinds == {"num", "max", "cool"}
\* targets of segments, and the temperatures they start from
SegmentTargets == {100, 200, 300}

\* a v2 file whose segment at the given position (1 or 2) is raw and starts from previous
FileWith(raw, previous, position) ==
    [name |-> "with", version |-> 2, start_temp |-> previous,
     segments |-> IF position = 1 THEN <<raw>>
                  ELSE << RawSeg("num", 0, previous, 1, 1), raw >>]

\* temperatures of the points of a v1 file, the seconds between two points, and the
\* time of the first point
V1Temps == {50, 100, 150}
V1Gaps == {60, 120}
V1Starts == {0, 60}

RECURSIVE TimeOfPoint(_, _, _)
TimeOfPoint(start, gaps, i) == IF i = 1 THEN start ELSE TimeOfPoint(start, gaps, i - 1) + gaps[i - 1]

\* the point list [[t1, temp1], [t2, temp2], ...], the times strictly increasing
PointsOf(start, gaps, temps) == [i \in 1..Len(temps) |-> <<TimeOfPoint(start, gaps, i), temps[i]>>]

\* the v1 point lists of 2 to MaxPoints points
V1Lists ==
    UNION {{PointsOf(start, gaps, temps) :
                start \in V1Starts, gaps \in [1..(n - 1) -> V1Gaps], temps \in [1..n -> V1Temps]} :
           n \in 2..MaxPoints}

\* no call made yet; data is the point list of the v1 file at hand
InitProfile ==
    /\ AtRest
    /\ cfg = BaseConfig
    /\ pid = NewPID(StartClock)
    /\ now = StartClock
    /\ tc_status = TrackerInit
    /\ call \in {[fn |-> "none", n |-> 0, data |-> data] : data \in V1Lists}

\* Segment(rate, target).validate(previous_target), and Profile(...) of a v2 document
\* that has the segment at the given position
Validate(kind, rate, target, previous, position) ==
    /\ call.fn = "none"
    /\ kind # "num" => rate = 0
    /\ call' = [fn |-> "validate", n |-> 1, kind |-> kind, rate |-> rate, target |-> target,
                previous_target |-> previous, position |-> position,
                accepted |-> validate(Segment(RawSeg(kind, rate, target, 0, 1)), previous),
                raised |-> Profile(json_dumps(FileWith(RawSeg(kind, rate, target, 0, 1),
                                                       previous, position))).raised]
    /\ UNCHANGED <<engine_vars, disk_vars>>

\* Profile(json) of a v1 document: _load_legacy(obj)
LoadLegacy ==
    /\ call.fn = "none"
    /\ call' = [fn |-> "load_legacy", n |-> 1, data |-> call.data,
                segments |-> load_legacy(call.data)]
    /\ UNCHANGED <<engine_vars, disk_vars>>

\* the Profile object of a v1 point list, as far as its v1 functions read it
ProfileV1(data) == [name |-> "v1", start_temp |-> data[1][2], data |-> data,
                    segments |-> load_legacy(data)]

\* the times a target is asked for: the start of the firing, the first and the last
\* point of the list, and the second after the last point
TargetTimes(data) == {0, data[1][1], data[Len(data)][1], data[Len(data)][1] + 1}

\* Profile.get_target_temperature(time)
GetTargetTemperature(time) ==
    /\ call.fn = "none"
    /\ call' = [fn |-> "get_target_temperature", n |-> 1, data |-> call.data, time |-> time,
                result |-> get_target_temperature(ProfileV1(call.data), time)]
    /\ UNCHANGED <<engine_vars, disk_vars>>

\* the kiln temperatures a start time is sought for: on points of the list, between
\* them and beyond them
SeekTemps == {50, 75, 100, 150, 175}

\* Profile.find_next_time_from_temperature(temperature)
FindNextTime(temperature) ==
    /\ call.fn = "none"
    /\ call' = [fn |-> "find_next_time_from_temperature", n |-> 1, data |-> call.data,
                temperature |-> temperature,
                result |-> find_next_time_from_temperature(ProfileV1(call.data), temperature)]
    /\ UNCHANGED <<engine_vars, disk_vars>>

NextProfile ==
    \/ \E kind \in SegmentKinds, rate \in SegmentRates, target \in SegmentTargets,
          previous \in SegmentTargets, position \in {1, 2} :
           Validate(kind, rate, target, previous, position)
    \/ LoadLegacy
    \/ \E time \in (IF call.fn = "none" THEN TargetTimes(call.data) ELSE {}) :
           GetTargetTemperature(time)
    \/ \E temperature \in SeekTemps : FindNextTime(temperature)

SpecProfile == InitProfile /\ [][NextProfile]_vars

-----------------------------------------------------------------------------
(* C26 *)

Sign(x) == IF x > 0 THEN 1 ELSE IF x < 0 THEN 0 - 1 ELSE 0

\* the call last made was validate for a segment with a numeric rate
ValidateNumeric == call.fn = "validate" /\ call.kind = "num"

\* what follows a refusal and an acceptance: ValueError, which ends the load of the
\* v2 document with the segment, or nothing raised by either
RaisesIffRefused ==
    /\ ~call.accepted => call.raised = "ValueError"
    /\ call.accepted => call.raised = ""

\* C26 as stated: for a segment with a numeric rate and a previous target, validate
\* accepts if and only if rate == 0 or the sign of rate equals the sign of
\* target - previous_target; otherwise it raises ValueError and the load of a v2
\* profile with the segment fails.
C26_AcceptsIffSameSign ==
    ValidateNumeric =>
        /\ call.accepted <=> (call.rate = 0 \/ Sign(call.rate) = Sign(call.target - call.previous_target))
        /\ RaisesIffRefused

\* C26: for a segment with a numeric rate and a previous target, validate accepts if
\* and only if rate == 0, target == previous_target, or the sign of rate equals the
\* sign of target - previous_target; otherwise it raises ValueError and the load of
\* a v2 profile with the segment fails.
C26_AcceptsUnlessOpposite ==
    ValidateNumeric =>
        /\ call.accepted <=> \/ call.rate = 0
                             \/ call.target = call.previous_target
                             \/ Sign(call.rate) = Sign(call.target - call.previous_target)
        /\ RaisesIffRefused

\* a rising rate towards the target the segment starts from, in the second segment of
\* a file: accepted, and the file loads
C26_Witness ==
    /\ ValidateNumeric
    /\ call.rate > 0
    /\ call.target = call.previous_target
    /\ call.position = 2
    /\ call.accepted
    /\ call.raised = ""

-----------------------------------------------------------------------------
(* C27 *)

\* the pairs of the list with a temperature change, each named by the point it ends at
ChangingPairs == {i \in 2..Len(call.data) : call.data[i][2] # call.data[i - 1][2]}

\* the first pair of the list is flat
LeadingFlat == call.data[2][2] = call.data[1][2]

\* the point the next pair with a temperature change starts from, after point i (the
\* last point when there is none)
EndOfFlatRun(i) ==
    LET later == {j \in ChangingPairs : j > i}
    IN  IF later = {} THEN Len(call.data) ELSE (CHOOSE j \in later : \A k \in later : j <= k) - 1

\* the seconds of the flat pairs that follow point i without a break
FlatRunAfter(i) == call.data[EndOfFlatRun(i)][1] - call.data[i][1]

\* the ramp segment of the pair that ends at point i, with the flat run after it as its hold
RampWithHold(i) ==
    Seg("num",
        ((call.data[i][2] - call.data[i - 1][2]) * SecondsPerHour) \div (call.data[i][1] - call.data[i - 1][1]),
        call.data[i][2], FlatRunAfter(i))

\* how many pairs with a temperature change there are up to point i
RankOfPair(i) == Cardinality({j \in ChangingPairs : j <= i})

\* C27 as stated: the segments of a v1 point list are one ramp segment for every
\* pair with a temperature change (rate = delta temp / delta time * 3600, target the
\* later temperature), every flat pair adding its duration to the hold of the segment
\* before it and producing no segment of its own.
C27_FlatPairsAlwaysMerge ==
    call.fn = "load_legacy" =>
        /\ Len(call.segments) = Cardinality(ChangingPairs)
        /\ \A i \in ChangingPairs : call.segments[RankOfPair(i)] = RampWithHold(i)

\* the segments a leading run of flat pairs accounts for
LeadingHolds == IF LeadingFlat THEN 1 ELSE 0

\* C27: the segments of a v1 point list are one ramp segment for every pair with a
\* temperature change (rate = delta temp / delta time * 3600, target the later
\* temperature), every flat pair that has a segment before it adding its duration
\* to the hold of that segment and producing no segment of its own; a flat pair at
\* the head of the list, which has no segment before it, yields a hold segment of
\* its own (rate 0, target that temperature), into which the flat pairs after it merge.
C27_FlatPairsMergeIntoPreceding ==
    call.fn = "load_legacy" =>
        /\ Len(call.segments) = Cardinality(ChangingPairs) + LeadingHolds
        /\ \A i \in ChangingPairs : call.segments[RankOfPair(i) + LeadingHolds] = RampWithHold(i)
        /\ LeadingFlat => call.segments[1] = Seg("num", 0, call.data[1][2], FlatRunAfter(1))

\* a list that opens with a flat pair, goes on with a ramp and ends with a flat pair
C27_Witness ==
    /\ call.fn = "load_legacy"
    /\ Len(call.data) = 4
    /\ LeadingFlat
    /\ ChangingPairs = {3}
    /\ Len(call.segments) = 2
    /\ call.segments[1].rate = 0
    /\ call.segments[2].hold > 0

-----------------------------------------------------------------------------
(* C28 *)

\* the duration of the profile of the call: the time of its last point
CallDuration == call.data[Len(call.data)][1]

\* C28: for a v1 profile with strictly increasing time points,
\* get_target_temperature(0) is the temperature of the first point,
\* get_target_temperature(duration) is the temperature of the last point, and
\* get_target_temperature(t) is 0 for every t > duration.
C28_TargetAtEnds ==
    call.fn = "get_target_temperature" =>
        /\ call.time = 0 => call.result = call.data[1][2]
        /\ call.time = CallDuration => call.result = call.data[Len(call.data)][2]
        /\ call.time > CallDuration => call.result = 0

-----------------------------------------------------------------------------
(* C29 *)

\* the intervals of the list, each named by the point it ends at, whose temperature
\* range contains the temperature sought
Containing == {i \in 2..Len(call.data) :
                   call.data[i - 1][2] <= call.temperature /\ call.temperature <= call.data[i][2]}

\* those of them with strictly positive slope
RisingContaining == {i \in Containing : call.data[i - 1][2] < call.data[i][2]}

\* the temperature sought lies on a flat interval
OnFlat == \E i \in Containing : call.data[i - 1][2] = call.data[i][2]

\* the time at which the line of interval i is at the temperature sought
LinearInverse(i) ==
    ((call.temperature - call.data[i - 1][2]) * (call.data[i][1] - call.data[i - 1][1]))
        \div (call.data[i][2] - call.data[i - 1][2]) + call.data[i - 1][1]

\* C29 as stated: find_next_time_from_temperature(T) uses only intervals with
\* strictly positive slope whose temperature range contains T, returning the linear
\* inverse on the first of them; when T lies on a flat interval and on no such rising
\* interval it returns 0, wherever the flat interval is in the profile.
C29_FlatGivesZero ==
    call.fn = "find_next_time_from_temperature" =>
        /\ RisingContaining # {} => call.result = LinearInverse(First(RisingContaining))
        /\ (OnFlat /\ RisingContaining = {}) => call.result = 0

\* C29: find_next_time_from_temperature(T) uses the first interval whose temperature
\* range contains T and whose slope is not negative: on an interval with strictly
\* positive slope it returns the linear inverse, on a flat interval (at T) it returns
\* the time at which the flat interval starts; it returns 0 when there is no such
\* interval.
C29_FirstContainingInterval ==
    call.fn = "find_next_time_from_temperature" =>
        call.result = IF Containing = {} THEN 0
                      ELSE IF First(Containing) \in RisingContaining
                           THEN LinearInverse(First(Containing))
                           ELSE call.data[First(Containing) - 1][1]

\* the temperature lies on a flat interval that follows a fall, and on no rising
\* interval: the result is the start of the flat interval, not 0
C29_Witness ==
    /\ call.fn = "find_next_time_from_temperature"
    /\ OnFlat
    /\ RisingContaining = {}
    /\ call.data[1][1] = 0
    /\ call.data[1][2] > call.temperature
    /\ call.result > 0
    /\ call.result = call.data[First(Containing) - 1][1]

-----------------------------------------------------------------------------
(* OvenWatcher: a firing is recorded state by state, and the recording is read *)

\* OvenWatcher.record has run for a firing of p1 that run_profile started at
\* StartClock: the recording holds its first entry (an entry is named by its place)
InitWatcher ==
    /\ cfg = BaseConfig
    /\ oven = run_profile([oven |-> InitOven, pid |-> NewPID(StartClock), relay |-> "off",
                           file |-> NoFile, logs |-> <<>>, ev |-> <<>>, duty |-> None],
                          "p1", 0, StartClock, 20).oven
    /\ pid = NewPID(StartClock)
    /\ relay = "off"
    /\ state_file = NoFile
    /\ firing_logs = <<>>
    /\ now = StartClock
    /\ temp = 20
    /\ tc_status = TrackerInit
    /\ runs = 1
    /\ events = <<>>
    /\ cause = "run"
    /\ run_ticks = <<>>
    /\ pause_ticks = <<>>
    /\ dir = NoDir
    /\ files = NoFiles
    /\ wr = InitWriter(Free, InitOven)
    /\ rd = InitReader
    /\ call = [fn |-> "record", n |-> 1, last_log |-> <<1>>]

\* OvenWatcher.run, one round with the oven RUNNING: the state is appended to last_log
Watch ==
    /\ oven.state = "RUNNING"
    /\ Len(call.last_log) < MaxLog
    /\ call' = [fn |-> "run", n |-> call.n + 1, last_log |-> Append(call.last_log, call.n + 1)]
    /\ UNCHANGED <<engine_vars, disk_vars>>

\* Oven.save_firing_log: temp_log = self.ovenwatcher.lastlog_subset(maxpts=500)
SaveFiringLog ==
    /\ call.fn = "run"
    /\ call' = [fn |-> "lastlog_subset", n |-> call.n, last_log |-> call.last_log,
                maxpts |-> FiringLogMaxpts,
                subset |-> lastlog_subset(call.last_log, FiringLogMaxpts)]
    /\ UNCHANGED <<engine_vars, disk_vars>>

\* OvenWatcher.add_observer: log_subset = self.lastlog_subset()
AddObserver ==
    /\ call.fn = "run"
    /\ call' = [fn |-> "lastlog_subset", n |-> call.n, last_log |-> call.last_log,
                maxpts |-> DefaultMaxpts,
                subset |-> lastlog_subset(call.last_log, DefaultMaxpts)]
    /\ UNCHANGED <<engine_vars, disk_vars>>

NextWatcher ==
    \/ Watch
    \/ SaveFiringLog
    \/ AddObserver

SpecWatcher == InitWatcher /\ [][NextWatcher]_vars

-----------------------------------------------------------------------------
(* C30 *)

\* C30: for every length of the recording, lastlog_subset(maxpts) returns no more
\* than maxpts entries, so the temperature_log of a firing log, taken with maxpts =
\* 500, holds at most 500 entries.
C30_SubsetWithinMaxpts ==
    call.fn = "lastlog_subset" => Len(call.subset) <= call.maxpts

-----------------------------------------------------------------------------
(* The cooling estimate after a firing: SpecCooling *)

\* number of IDLE iterations followed after the end of a firing
MaxCoolTicks == 4

\* config.cooling_min_samples
CoolingMinSamples == 2

\* recalc_interval of Oven.update_cooling_estimate
RecalcInterval == 150

\* readings of the sensor around config.cooling_target_temp
CoolTemps == {20, 40, 60}

\* seconds from one IDLE iteration to the next: the sleep of 1 s, or a thread that was
\* held up for the length of a recalculation interval
IdleElapsed == {IdleSleep, RecalcInterval}

\* what calculate_cooling_constant and estimate_time_to_target give: no fit, or a time
\* that format_cooling_time writes as HH:MM
Fits == {"none", "HH:MM"}

\* Oven.calculate_cooling_constant: no fit from fewer than cooling_min_samples samples
fit_possible(samples, fit) == fit = "none" \/ samples >= CoolingMinSamples

\* Oven.start_cooling, the fields of the estimate
start_cooling_estimate(c, t) ==
    [c EXCEPT !.cooling_mode = TRUE, !.cooling_estimate = "None",
              !.last_k_calculation_time = t, !.fitted = FALSE]

\* Oven.update_cooling_estimate, the fields of the estimate; current_temp is its own
\* reading of the sensor
update_cooling_estimate_text(c, t, current_temp, fit) ==
    IF current_temp + ThermocoupleOffset <= CoolingTargetTemp
    THEN [c EXCEPT !.cooling_estimate = "Ready"]
    ELSE IF t - c.last_k_calculation_time >= RecalcInterval
         THEN IF fit # "none"
              THEN [c EXCEPT !.cooling_estimate = fit, !.last_k_calculation_time = t,
                             !.fitted = TRUE]
              ELSE [c EXCEPT !.cooling_estimate = "Calculating..."]
         ELSE IF c.cooling_estimate = "None"
              THEN [c EXCEPT !.cooling_estimate = "Calculating..."]
              ELSE c

\* Oven.run, the IDLE branch without a restart, the fields of the estimate
idle_cooling(c, t, current_temp, temp_in_update, fit) ==
    IF current_temp + ThermocoupleOffset > CoolingTargetTemp
    THEN update_cooling_estimate_text(
             IF ~c.cooling_mode THEN start_cooling_estimate(c, t) ELSE c,
             t, temp_in_update, fit)
    ELSE IF c.cooling_mode
         THEN [c EXCEPT !.cooling_mode = FALSE, !.cooling_estimate = "None"]
         ELSE c

\* Oven.get_state: 'cooling_estimate'
reported_cooling_estimate(c) == IF c.cooling_mode THEN c.cooling_estimate ELSE "None"

\* the engine as reset_if_schedule_ended leaves it: IDLE, start_cooling() just called
InitCooling ==
    /\ oven = [InitOven EXCEPT !.cooling_mode = TRUE]
    /\ pid = NewPID(StartClock)
    /\ relay = "off"
    /\ state_file = NoFile
    /\ firing_logs = <<>>
    /\ now = StartClock
    /\ temp \in CoolTemps
    /\ tc_status = TrackerInit
    /\ cfg = [BaseConfig EXCEPT !.automatic_restarts = FALSE]
    /\ runs = 1
    /\ events = <<>>
    /\ cause = "schedule_end"
    /\ run_ticks = <<>>
    /\ pause_ticks = <<>>
    /\ dir = NoDir
    /\ files = NoFiles
    /\ wr = InitWriter(Free, InitOven)
    /\ rd = InitReader
    /\ call = [fn |-> "start_cooling", n |-> 0, cooling_mode |-> TRUE,
               cooling_estimate |-> "None", last_k_calculation_time |-> StartClock,
               fitted |-> FALSE, current_temp |-> 0, temp_in_update |-> 0,
               reported |-> "None"]

\* one iteration of Oven.run with state IDLE, and the snapshot get_state gives after it.
\* The sensor thread may replace the reading between the branch's own read (temp) and
\* the read of update_cooling_estimate (temp_in_update).
CoolingTick(temp_in_update, elapsed, fit) ==
    /\ oven.state = "IDLE"
    /\ call.n < MaxCoolTicks
    /\ LET r == idle_branch(World(<<"tick", "IDLE">>), now, temp)
           c == idle_cooling(call, now, temp, temp_in_update, fit)
       IN  /\ fit_possible(r.oven.cooling_samples, fit)
           /\ Commit(r)
           /\ call' = [c EXCEPT !.fn = "idle", !.n = call.n + 1, !.current_temp = temp,
                                !.temp_in_update = temp_in_update,
                                !.reported = reported_cooling_estimate(c)]
    /\ now' = now + elapsed
    /\ temp' = temp_in_update
    /\ UNCHANGED <<tc_status, cfg, runs, run_ticks, pause_ticks, disk_vars>>

\* the reading of the next iteration, taken by the sensor thread during the sleep
SensorReads(tp) ==
    /\ call.fn = "idle"
    /\ call.n < MaxCoolTicks
    /\ temp' = tp
    /\ call' = [call EXCEPT !.fn = "sensor"]
    /\ UNCHANGED <<oven, pid, relay, state_file, firing_logs, now, tc_status, cfg,
                   runs, events, cause, run_ticks, pause_ticks, disk_vars>>

NextCooling ==
    \/ \E temp_in_update \in CoolTemps, elapsed \in IdleElapsed, fit \in Fits :
           CoolingTick(temp_in_update, elapsed, fit)
    \/ \E tp \in CoolTemps : SensorReads(tp)

SpecCooling == InitCooling /\ [][NextCooling]_vars

-----------------------------------------------------------------------------
(* C31 *)

\* C31: in cooling-estimate mode after a firing, after every IDLE iteration that found
\* the kiln at or below cooling_target_temp the snapshot reports the estimate "Ready",
\* and after every iteration that found it above the target with no valid fit made so
\* far the snapshot reports "Calculating...".
C31_ReadyAtOrBelowTarget ==
    call.fn = "idle" =>
        /\ (call.current_temp <= CoolingTargetTemp /\ call.temp_in_update <= CoolingTargetTemp)
               => call.reported = "Ready"
        /\ (call.current_temp > CoolingTargetTemp /\ call.temp_in_update > CoolingTargetTemp
            /\ ~call.fitted)
               => call.reported = "Calculating..."

-----------------------------------------------------------------------------
(* Oven.calculate_rate_based_target called on its own: SpecTarget *)

\* default of config.rate_lookahead_seconds
DefaultRateLookahead == 60

\* v2 control with the default lookahead and the default cap of the lead
TargetConfig == [BaseConfig EXCEPT !.use_rate_based_control = TRUE,
                                   !.rate_lookahead_seconds = DefaultRateLookahead]

\* the segment in progress: numeric rates of 1 and 2 degrees a second up and down, rate
\* 0, and the rates "max" and "cool"
TargetSegments ==
    {Seg("num", rate, target, 0) : rate \in {0 - 7200, 0 - 3600, 0, 3600, 7200}, target \in {50, 150}}
    \cup {Seg(kind, 0, target, 0) : kind \in {"max", "cool"}, target \in {50, 150}}

\* segment_start_temp: not set, or the reading when the segment began
StartTemps == {None, 0, 20, 100}

\* seconds since the segment began (None: segment_start_time not set)
Elapsed == {None, 0, 1, 25, 26, 60, 120}

\* the clock at the call, later than every segment start
TargetClock == StartClock + 200

\* the reading at the call
TargetReads == {20, 60}

InitTarget ==
    /\ AtRest
    /\ cfg = TargetConfig
    /\ pid = NewPID(StartClock)
    /\ now = TargetClock
    /\ tc_status = TrackerInit
    /\ call = NoCall

\* Oven.calculate_rate_based_target() on an oven in segment current_segment_index of a
\* one-segment profile
CalculateTarget(segment, current_segment_index, segment_phase, segment_start_temp, elapsed, tp) ==
    /\ call.fn = "none"
    /\ LET p == [name |-> "one", start_temp |-> 20, data |-> <<>>, segments |-> <<segment>>]
           o == [InitOven EXCEPT !.state = "RUNNING", !.profile = "one",
                                 !.current_segment_index = current_segment_index,
                                 !.segment_phase = segment_phase,
                                 !.segment_start_temp = segment_start_temp,
                                 !.segment_start_time =
                                     IF elapsed = None THEN None ELSE now - elapsed]
       IN  call' = [fn |-> "calculate_rate_based_target", n |-> 1, segment |-> segment,
                    current_segment_index |-> current_segment_index,
                    segment_phase |-> segment_phase,
                    segment_start_temp |-> segment_start_temp,
                    elapsed |-> elapsed, temperature |-> tp,
                    result |-> rate_based_target(p, o, now, tp)]
    /\ UNCHANGED <<engine_vars, disk_vars>>

NextTarget ==
    \E segment \in TargetSegments, current_segment_index \in {0, 1},
       segment_phase \in {"ramp", "hold"}, segment_start_temp \in StartTemps,
       elapsed \in Elapsed, tp \in TargetReads :
        CalculateTarget(segment, current_segment_index, segment_phase, segment_start_temp,
                        elapsed, tp)

SpecTarget == InitTarget /\ [][NextTarget]_vars

-----------------------------------------------------------------------------
(* C32 *)

\* the lead of rate r after elapsed seconds, capped at max_target_divergence either way
LeadOf(r, elapsed) ==
    LET raw == (r * Min(elapsed, cfg.rate_lookahead_seconds)) \div SecondsPerHour
    IN  Max(0 - cfg.max_target_divergence, Min(cfg.max_target_divergence, raw))

\* a call made in a segment of the profile with the segment's start recorded
TargetCallInSegment ==
    /\ call.fn = "calculate_rate_based_target"
    /\ call.current_segment_index = 0
    /\ call.segment_start_temp # None
    /\ call.elapsed # None

\* C32: for a ramp with numeric nonzero rate r the rate-based target is ceiling + lead,
\* ceiling = T0 + r * elapsed / 3600 with T0 the temperature at the segment's start and
\* lead = r * min(elapsed, lookahead) / 3600 capped at max_target_divergence either way,
\* then clamped toward the segment target (never above it for r > 0, never below it for
\* r < 0); in the hold phase and for "max", "cool" and rate-0 segments the target is the
\* segment target.
C32_RateBasedTarget ==
    TargetCallInSegment =>
        LET r == call.segment.rate
            ceiling == call.segment_start_temp + (r * call.elapsed) \div SecondsPerHour
            free == ceiling + LeadOf(r, call.elapsed)
        IN  IF call.segment_phase = "ramp" /\ call.segment.kind = "num" /\ r # 0
            THEN /\ call.result = IF r > 0 THEN Min(free, call.segment.target)
                                           ELSE Max(free, call.segment.target)
                 /\ r > 0 => call.result <= call.segment.target
                 /\ r < 0 => call.result >= call.segment.target
            ELSE call.result = call.segment.target

-----------------------------------------------------------------------------
(* The engine with config.kiln_must_catch_up on: SpecCatchUp *)

\* v1 control with kiln_must_catch_up = True
CatchUpConfig == [BaseConfig EXCEPT !.kiln_must_catch_up = TRUE]

InitCatchUp ==
    /\ cfg = CatchUpConfig
    /\ oven = InitOven
    /\ pid = NewPID(StartClock)
    /\ relay = "off"
    /\ state_file \in InitFiles(cfg)
    /\ firing_logs = <<>>
    /\ now = StartClock
    /\ temp = 20
    /\ tc_status = TrackerInit
    /\ runs = 0
    /\ events = <<>>
    /\ cause = "init"
    /\ run_ticks = <<>>
    /\ pause_ticks = <<>>
    /\ dir = NoDir
    /\ files = NoFiles
    /\ wr = InitWriter(Free, InitOven)
    /\ rd = InitReader
    /\ call = NoCall

SpecCatchUp == InitCatchUp /\ [][Next]_vars

-----------------------------------------------------------------------------
(* C33 *)

\* the step is an iteration of Oven.run that found the engine RUNNING and left it RUNNING
RunningTickStep ==
    /\ oven.state = "RUNNING"
    /\ oven'.state = "RUNNING"
    /\ events'[1] = <<"tick", "RUNNING">>

\* |target - temp| as kiln_must_catch_up finds it: the target of the engine and the
\* reading of this iteration
GapAtTick == Abs(oven.target - (temp + ThermocoupleOffset))

\* C33: in v1 mode with kiln_must_catch_up on, every RUNNING tick that finds
\* |target - temp| > pid_control_window shifts the schedule start so that runtime is
\* after the tick what it was before it, and sets catching_up; every tick that finds
\* the gap within the window clears catching_up and sets runtime to the wall time
\* since the schedule start.
C33_CatchUp ==
    [][RunningTickStep =>
          IF GapAtTick > PidControlWindow
          THEN /\ oven'.catching_up
               /\ oven'.runtime = oven.runtime
               /\ oven'.start_time = now - oven.runtime
          ELSE /\ ~oven'.catching_up
               /\ oven'.start_time = oven.start_time
               /\ oven'.runtime = Max(now - oven.start_time, 0)]_vars

\* a run held back by a tick after its schedule had begun to advance
C33_Witness ==
    /\ oven.state = "RUNNING"
    /\ oven.catching_up
    /\ oven.runtime > 0
    /\ Len(run_ticks) >= 3

-----------------------------------------------------------------------------
(* Oven.set_heat_rate called on its own: SpecHeatRate *)

\* number of samples handed to set_heat_rate since the last reset while the runtime
\* stands still (a paused firing), and the one sample that may end the standstill
MaxSeen == 1002
\* number of samples followed since the last reset once the runtime has moved
MaxMoving == 11

\* min_samples of set_heat_rate
MinSamples == 10
\* default of config.heat_rate_window_seconds
HeatRateWindowSeconds == 300
\* the cap on the number of samples
MaxHeatRateSamples == 1000

\* s[-k:]
LastOf(s, k) == SubSeq(s, Len(s) - k + 1, Len(s))

\* set_heat_rate keeping only the samples of the time window
heat_rate_temps_window_only(heat_rate_temps, runtime, tp) ==
    LET appended == Append(heat_rate_temps, <<runtime, tp>>)
        cutoff_time == runtime - HeatRateWindowSeconds
    IN  SelectSeq(appended, LAMBDA s : s[1] >= cutoff_time)

\* Oven.set_heat_rate(runtime, temp): self.heat_rate_temps after the call
heat_rate_temps_after(heat_rate_temps, runtime, tp) ==
    LET appended == Append(heat_rate_temps, <<runtime, tp>>)
        cutoff_time == runtime - HeatRateWindowSeconds
        filtered == SelectSeq(appended, LAMBDA s : s[1] >= cutoff_time)
        windowed == IF Len(appended) > MinSamples
                    THEN IF Len(filtered) >= MinSamples THEN filtered
                         ELSE LastOf(appended, MinSamples)
                    ELSE appended
    IN  IF Len(windowed) > MaxHeatRateSamples
        THEN LastOf(windowed, MaxHeatRateSamples)
        ELSE windowed

\* Oven.set_heat_rate(runtime, temp): self.heat_rate after the call, in degrees an hour
heat_rate_after(heat_rate, samples) ==
    IF Len(samples) >= 2 /\ samples[Len(samples)][1] > samples[1][1]
    THEN ((samples[Len(samples)][2] - samples[1][2]) * SecondsPerHour)
             \div (samples[Len(samples)][1] - samples[1][1])
    ELSE heat_rate

\* seconds by which the runtime of a call is later than that of the call before: none,
\* two thirds of a window, more than a window
RuntimeSteps == {0, 200, 301}

\* the object after Oven.reset: no samples
AfterReset == [fn |-> "reset", n |-> 0, moves |-> 0, runtime |-> 0, heat_rate |-> 0,
               heat_rate_temps |-> <<>>]

InitHeatRate ==
    /\ AtRest
    /\ cfg = BaseConfig
    /\ pid = NewPID(StartClock)
    /\ now = StartClock
    /\ tc_status = TrackerInit
    /\ call = AfterReset

\* Oven.get_state: self.set_heat_rate(runtime, temp), at a runtime later by step
SetHeatRate(step) ==
    /\ call.fn \in {"reset", "set_heat_rate"}
    /\ call.n < (IF call.moves = 0 THEN MaxSeen ELSE MaxMoving)
    /\ LET runtime == call.runtime + step
           samples == heat_rate_temps_after(call.heat_rate_temps, runtime, temp)
       IN  call' = [fn |-> "set_heat_rate", n |-> call.n + 1,
                    moves |-> call.moves + (IF step > 0 THEN 1 ELSE 0),
                    runtime |-> runtime,
                    heat_rate |-> heat_rate_after(call.heat_rate, samples),
                    heat_rate_temps |-> samples]
    /\ UNCHANGED <<engine_vars, disk_vars>>

\* Oven.reset: self.heat_rate_temps = []
ResetHeatRate ==
    /\ call.fn = "set_heat_rate"
    /\ call' = AfterReset
    /\ UNCHANGED <<engine_vars, disk_vars>>

NextHeatRate ==
    \/ \E step \in RuntimeSteps : SetHeatRate(step)
    \/ ResetHeatRate

SpecHeatRate == InitHeatRate /\ [][NextHeatRate]_vars

-----------------------------------------------------------------------------
(* C34 *)

\* C34: after any sequence of set_heat_rate calls since the last reset, the sample
\* buffer holds at least min(10, number of samples seen since the reset) samples and
\* at most 1000.
C34_BufferLength ==
    call.fn \in {"reset", "set_heat_rate"} =>
        /\ Len(call.heat_rate_temps) >= Min(MinSamples, call.n)
        /\ Len(call.heat_rate_temps) <= MaxHeatRateSamples

\* the cap has cut the buffer: more than 1000 samples seen, all within the window
C34_Witness ==
    /\ call.fn = "set_heat_rate"
    /\ call.n > MaxHeatRateSamples
    /\ Len(call.heat_rate_temps) = MaxHeatRateSamples

-----------------------------------------------------------------------------
(* A control tick step by step, with a STOP of the command thread: SpecStop *)

\* the control loop is at the head of Oven.run's loop; duty is the heat_on of
\* heat_then_cool while the loop is inside it
AtLoopTop == [fn |-> "loop", n |-> 0, pc |-> "top", duty |-> None]

\* a firing of p1 has been started; the control loop is about to read self.state
InitStop ==
    /\ cfg = BaseConfig
    /\ oven = run_profile([oven |-> InitOven, pid |-> NewPID(StartClock), relay |-> "off",
                           file |-> NoFile, logs |-> <<>>, ev |-> <<>>, duty |-> None],
                          "p1", 0, StartClock, 20).oven
    /\ pid = NewPID(StartClock)
    /\ relay = "off"
    /\ state_file = NoFile
    /\ firing_logs = <<>>
    /\ now = StartClock
    /\ temp \in Temps
    /\ tc_status = TrackerInit
    /\ runs = 1
    /\ events = <<>>
    /\ cause = "run"
    /\ run_ticks = <<>>
    /\ pause_ticks = <<>>
    /\ dir = NoDir
    /\ files = NoFiles
    /\ wr = InitWriter(Free, InitOven)
    /\ rd = InitReader
    /\ call = AtLoopTop

\* Oven.run with state RUNNING (v1), from the test of self.state to the call of
\* heat_then_cool
LoopRunning ==
    /\ call.pc = "top"
    /\ oven.state = "RUNNING"
    /\ ClockOpen
    /\ LET w == World(<<"tick", "RUNNING">>)
           w1 == save_automatic_restart_state(update_cost(w), now)
       IN  Commit(reset_if_schedule_ended(
                      update_target_temp(update_runtime(kiln_must_catch_up(w1, now, temp), now),
                                         now, temp), now))
    /\ call' = [call EXCEPT !.pc = "heat_then_cool"]
    /\ UNCHANGED <<now, temp, tc_status, cfg, runs, run_ticks, pause_ticks, disk_vars>>

\* RealOven.heat_then_cool: pid.compute, heat_on and heat_off, self.heat
HeatCompute ==
    /\ call.pc = "heat_then_cool"
    /\ LET r == heat_then_cool_compute(World(<<"tick", "heat_then_cool">>), now, temp)
       IN  /\ Commit(r)
           /\ call' = [call EXCEPT !.pc = "output", !.duty = r.duty]
    /\ UNCHANGED <<now, temp, tc_status, cfg, runs, run_ticks, pause_ticks, disk_vars>>

\* RealOven.heat_then_cool: output.heat(heat_on), output.cool(heat_off) and their
\* sleeps, at the end of which the sensor reads tp1
HeatActuate(tp1, oks) ==
    /\ call.pc = "output"
    /\ Commit(heat_then_cool_actuate([World(<<"tick", "output">>) EXCEPT !.duty = call.duty]))
    /\ call' = [call EXCEPT !.pc = "reset_if_emergency", !.duty = None]
    /\ now' = now + TimeStep
    /\ temp' = tp1
    /\ tc_status' = TrackerAddAll(tc_status, oks, 1)
    /\ UNCHANGED <<cfg, runs, run_ticks, pause_ticks, disk_vars>>

\* Oven.run: reset_if_emergency, and back to the head of the loop
LoopEmergency ==
    /\ call.pc = "reset_if_emergency"
    /\ Commit(reset_if_emergency(World(<<"tick", "reset_if_emergency">>), now, temp, tc_status))
    /\ call' = [call EXCEPT !.pc = "top", !.n = call.n + 1]
    /\ UNCHANGED <<now, temp, tc_status, cfg, runs, run_ticks, pause_ticks, disk_vars>>

\* Oven.run with state IDLE: one whole iteration
LoopIdle(tp1) ==
    /\ call.pc = "top"
    /\ oven.state = "IDLE"
    /\ ClockOpen
    /\ LET r == idle_branch(World(<<"tick", "IDLE">>), now, temp)
       IN  /\ Commit(r)
           /\ now' = now + IdleSleep + (IF Has(r.ev, "restart") THEN RestartSleep ELSE 0)
    /\ temp' = tp1
    /\ call' = [call EXCEPT !.n = call.n + 1]
    /\ UNCHANGED <<tc_status, cfg, runs, run_ticks, pause_ticks, disk_vars>>

\* handle_api, cmd == 'stop', on the command thread, wherever the control loop is
StopAnywhere ==
    /\ oven.state # "IDLE"
    /\ Stop

NextStop ==
    \/ LoopRunning
    \/ HeatCompute
    \/ \E tp1 \in Temps, oks \in Samples : HeatActuate(tp1, oks)
    \/ LoopEmergency
    \/ \E tp1 \in Temps : LoopIdle(tp1)
    \/ StopAnywhere

SpecStop == InitStop /\ [][NextStop]_vars

-----------------------------------------------------------------------------
(* C35 *)

\* C35: under every interleaving of an operator STOP with a control tick, and after
\* every schedule end, whenever the control loop begins an iteration with state IDLE
\* the relay line is at its deasserted level.
C35_RelayOffWhenIdleIterationBegins ==
    (call.fn = "loop" /\ call.pc = "top" /\ oven.state = "IDLE") => relay = "off"

-----------------------------------------------------------------------------
(* C36 *)

\* C36: with automatic_restarts on, after a schedule has completed (v1 runtime >
\* duration, v2 last segment finished) the engine stays IDLE until a run command: no
\* iteration of the IDLE loop restarts the completed firing from a snapshot that still
\* records state RUNNING.
C36_CompletedStaysIdle ==
    [][(cfg.automatic_restarts /\ oven.state = "IDLE" /\ cause = "end"
        /\ oven'.state # "IDLE")
           => HasEv(events', "cmd", "run")]_vars

-----------------------------------------------------------------------------
(* Oven.run statement by statement (v1), with handle_api on the command thread *)

\* the control loop is about to read self.state; the command thread is between requests
AtStateTest == [fn |-> "run", n |-> 0, pc |-> "top", branch |-> "IDLE", cmd |-> "none"]

\* a firing of p1 has been started
InitLoop ==
    /\ cfg = BaseConfig
    /\ oven = run_profile([oven |-> InitOven, pid |-> NewPID(StartClock), relay |-> "off",
                           file |-> NoFile, logs |-> <<>>, ev |-> <<>>, duty |-> None],
                          "p1", 0, StartClock, 20).oven
    /\ pid = NewPID(StartClock)
    /\ relay = "off"
    /\ state_file = NoFile
    /\ firing_logs = <<>>
    /\ now = StartClock
    /\ temp \in Temps
    /\ tc_status = TrackerInit
    /\ runs = 1
    /\ events = <<>>
    /\ cause = "run"
    /\ run_ticks = <<>>
    /\ pause_ticks = <<>>
    /\ dir = NoDir
    /\ files = NoFiles
    /\ wr = InitWriter(Free, InitOven)
    /\ rd = InitReader
    /\ call = AtStateTest

\* the statement that follows pc in the branch of Oven.run that was entered
NextStatement(branch, pc) ==
    IF branch = "RUNNING"
    THEN CASE pc = "save_automatic_restart_state" -> "update_runtime"
           [] pc = "update_runtime" -> "update_target_temp"
           [] pc = "update_target_temp" -> "reset_if_schedule_ended"
           [] pc = "reset_if_schedule_ended" -> "heat_then_cool"
           [] pc = "heat_then_cool" -> "reset_if_emergency"
           [] OTHER -> "top"
    ELSE CASE pc = "get_start_time" -> "update_runtime"
           [] pc = "update_runtime" -> "update_target_temp"
           [] pc = "update_target_temp" -> "heat_then_cool"
           [] pc = "heat_then_cool" -> "reset_if_emergency"
           [] pc = "reset_if_emergency" -> "reset_if_schedule_ended"
           [] OTHER -> "top"

LoopAdvance == call' = [call EXCEPT !.pc = NextStatement(call.branch, call.pc)]

LoopRaise == call' = [call EXCEPT !.pc = "raised"]

StepFrame == UNCHANGED <<now, temp, tc_status, cfg, runs, run_ticks, pause_ticks, disk_vars>>

\* Oven.run: the tests of self.state, RUNNING or PAUSED
EnterBranch ==
    /\ call.pc = "top"
    /\ oven.state \in {"RUNNING", "PAUSED"}
    /\ ClockOpen
    /\ call' = [call EXCEPT !.branch = oven.state,
                            !.pc = IF oven.state = "RUNNING"
                                   THEN "save_automatic_restart_state" ELSE "get_start_time"]
    /\ UNCHANGED <<engine_vars, disk_vars>>

\* RUNNING branch: update_cost, save_automatic_restart_state, kiln_must_catch_up
StepSave ==
    /\ call.pc = "save_automatic_restart_state"
    /\ Commit(kiln_must_catch_up(
                  save_automatic_restart_state(
                      update_cost(World(<<"tick", "save_automatic_restart_state">>)), now),
                  now, temp))
    /\ LoopAdvance
    /\ StepFrame

\* PAUSED branch: self.start_time = self.get_start_time()
StepGetStartTime ==
    /\ call.pc = "get_start_time"
    /\ LET w == World(<<"tick", "get_start_time">>)
       IN  Commit([w EXCEPT !.oven.start_time = get_start_time(w, now)])
    /\ LoopAdvance
    /\ StepFrame

\* Oven.update_runtime: datetime.now() - self.start_time raises TypeError when
\* start_time is the 0 that Oven.reset assigns
StepUpdateRuntime ==
    /\ call.pc = "update_runtime"
    /\ IF oven.start_time = 0
       THEN Commit(Ev(World(<<"tick", "update_runtime">>), "raised", "TypeError")) /\ LoopRaise
       ELSE Commit(update_runtime(World(<<"tick", "update_runtime">>), now)) /\ LoopAdvance
    /\ StepFrame

\* Oven.update_target_temp: self.profile.get_target_temperature raises AttributeError
\* when profile is None
StepUpdateTargetTemp ==
    /\ call.pc = "update_target_temp"
    /\ IF oven.profile = "none"
       THEN /\ Commit(Ev(World(<<"tick", "update_target_temp">>), "raised", "AttributeError"))
            /\ LoopRaise
       ELSE /\ Commit(update_target_temp(World(<<"tick", "update_target_temp">>), now, temp))
            /\ LoopAdvance
    /\ StepFrame

\* Oven.reset_if_schedule_ended
StepScheduleEnded ==
    /\ call.pc = "reset_if_schedule_ended"
    /\ Commit(reset_if_schedule_ended(World(<<"tick", "reset_if_schedule_ended">>), now))
    /\ LoopAdvance
    /\ StepFrame

\* RealOven.heat_then_cool; its sleeps end with the sensor reading tp1
StepHeatThenCool(tp1, oks) ==
    /\ call.pc = "heat_then_cool"
    /\ Commit(heat_then_cool(World(<<"tick", "heat_then_cool">>), now, temp))
    /\ LoopAdvance
    /\ now' = now + TimeStep
    /\ temp' = tp1
    /\ tc_status' = TrackerAddAll(tc_status, oks, 1)
    /\ UNCHANGED <<cfg, runs, run_ticks, pause_ticks, disk_vars>>

\* Oven.reset_if_emergency
StepEmergency ==
    /\ call.pc = "reset_if_emergency"
    /\ Commit(reset_if_emergency(World(<<"tick", "reset_if_emergency">>), now, temp, tc_status))
    /\ LoopAdvance
    /\ StepFrame

\* handle_api on the command thread: run and stop, between two statements of the loop
CmdRun == call.cmd = "none" /\ Run("p1")

CmdStop == call.cmd = "none" /\ oven.state # "IDLE" /\ Stop

\* handle_api, cmd == 'pause' or 'resume': the test of oven.state
CmdTest(cmd) ==
    /\ call.cmd = "none"
    /\ oven.state = (IF cmd = "pause" THEN "RUNNING" ELSE "PAUSED")
    /\ call' = [call EXCEPT !.cmd = cmd]
    /\ UNCHANGED <<engine_vars, disk_vars>>

\* handle_api, cmd == 'pause' or 'resume': the assignment to oven.state
CmdSet ==
    /\ call.cmd # "none"
    /\ LET to == IF call.cmd = "pause" THEN "PAUSED" ELSE "RUNNING"
           w == World(<<"cmd", call.cmd>>)
       IN  Commit(Ev([w EXCEPT !.oven.state = to], "state", to))
    /\ call' = [call EXCEPT !.cmd = "none"]
    /\ StepFrame

NextLoop ==
    \/ EnterBranch
    \/ StepSave
    \/ StepGetStartTime
    \/ StepUpdateRuntime
    \/ StepUpdateTargetTemp
    \/ StepScheduleEnded
    \/ \E tp1 \in Temps, oks \in Samples : StepHeatThenCool(tp1, oks)
    \/ StepEmergency
    \/ \E tp1 \in Temps : LoopIdle(tp1)
    \/ CmdRun
    \/ CmdStop
    \/ \E cmd \in {"pause", "resume"} : CmdTest(cmd)
    \/ CmdSet

SpecLoop == InitLoop /\ [][NextLoop]_vars

-----------------------------------------------------------------------------
(* C37 *)

\* C37: under every interleaving of the operator commands with a control tick, the
\* control loop never executes a statement of a RUNNING or PAUSED tick with profile
\* None or with the start_time that is not a datetime, never ends through an unhandled
\* exception, and state RUNNING or PAUSED implies a loaded profile.
C37_LoopNeverRaises ==
    call.fn = "run" =>
        /\ call.pc # "raised"
        /\ (call.pc \in {"update_runtime", "update_target_temp"}
                => oven.profile # "none" /\ oven.start_time # 0)
        /\ (oven.state \in {"RUNNING", "PAUSED"} => oven.profile # "none")

-----------------------------------------------------------------------------
(* C38 *)

\* C38: each started run produces at most one firing log: once the firing log of a
\* run has been written, no later operator STOP and no later interlock evaluation
\* writes a second one for that run.
C38_OneFiringLogPerRun == Len(firing_logs) <= 1

-----------------------------------------------------------------------------
(* v2 firing of a profile of three segments *)

SegmentsConfig == [BaseConfig EXCEPT !.use_rate_based_control = TRUE]

\* the v2 profile p4 has been started with the kiln at any of the temperatures
InitSegments ==
    /\ cfg = SegmentsConfig
    /\ temp \in Temps
    /\ oven = run_profile([oven |-> InitOven, pid |-> NewPID(StartClock), relay |-> "off",
                           file |-> NoFile, logs |-> <<>>, ev |-> <<>>, duty |-> None],
                          "p4", 0, StartClock, temp).oven
    /\ pid = NewPID(StartClock)
    /\ relay = "off"
    /\ state_file = NoFile
    /\ firing_logs = <<>>
    /\ now = StartClock
    /\ tc_status = TrackerInit
    /\ runs = 1
    /\ events = <<>>
    /\ cause = "run"
    /\ run_ticks = <<>>
    /\ pause_ticks = <<>>
    /\ dir = NoDir
    /\ files = NoFiles
    /\ wr = InitWriter(Free, InitOven)
    /\ rd = InitReader
    /\ call = NoCall

SpecSegments == InitSegments /\ [][Next]_vars


-----------------------------------------------------------------------------
(* C39 *)

\* a RUNNING tick of a v2 firing in which no interlock has ended the run
SegmentTickStep ==
    /\ RateBased
    /\ oven.state = "RUNNING"
    /\ events'[1] = <<"tick", "RUNNING">>
    /\ oven'.profile = oven.profile

\* the segment the engine is in
SegmentAt == ProfileOf(oven.profile).segments[oven.current_segment_index + 1]

\* the temperature is within segment_complete_tolerance of the target, coming from the
\* side the rate comes from
InRateDirection(segment, tmp) ==
    IF segment.kind = "max" \/ (segment.kind = "num" /\ segment.rate > 0)
    THEN tmp >= segment.target - SegmentCompleteTolerance
    ELSE IF segment.kind = "cool" \/ (segment.kind = "num" /\ segment.rate < 0)
    THEN tmp <= segment.target + SegmentCompleteTolerance
    ELSE Abs(tmp - segment.target) <= SegmentCompleteTolerance

PureHold(segment) == segment.kind = "num" /\ segment.rate = 0

\* the parts of the claim that do not depend on the rate: the index moves by 0 or 1 in
\* a tick, a hold ends only after hold seconds, a ramp ends in the next segment exactly
\* when the segment has no hold
SegmentIndexStep ==
    /\ oven'.current_segment_index \in {oven.current_segment_index, oven.current_segment_index + 1}
    /\ (oven.segment_phase = "hold" /\ oven'.current_segment_index # oven.current_segment_index)
           => /\ oven.hold_start_time # None
              /\ now - oven.hold_start_time >= SegmentAt.hold
    /\ (oven.segment_phase = "ramp" /\ oven'.current_segment_index # oven.current_segment_index)
           => SegmentAt.hold = 0
    /\ (oven.segment_phase = "ramp" /\ SegmentAt.hold = 0
        /\ ~PureHold(SegmentAt) /\ InRateDirection(SegmentAt, temp + ThermocoupleOffset))
           => oven'.current_segment_index = oven.current_segment_index + 1

RampToHoldStep ==
    /\ oven.segment_phase = "ramp"
    /\ oven'.segment_phase = "hold"
    /\ oven'.current_segment_index = oven.current_segment_index

\* C39 as stated: during a v2 run current_segment_index never decreases and grows by
\* exactly 1 per advance, at most once per tick; a segment with hold > 0 goes from ramp
\* to hold only when the temperature is within segment_complete_tolerance of the target
\* in the direction of the rate, and leaves hold only when at least hold seconds have
\* elapsed since the hold began; a segment with hold == 0 advances directly from ramp
\* to the next segment.
C39_SegmentProgress_AsStated ==
    [][SegmentTickStep =>
          /\ SegmentIndexStep
          /\ RampToHoldStep
                 => /\ SegmentAt.hold > 0
                    /\ InRateDirection(SegmentAt, temp + ThermocoupleOffset)]_vars

\* C39 (amended): the same, except that a segment of rate 0 with hold > 0 goes from
\* ramp to hold on its first tick whatever the temperature.
C39_SegmentProgress ==
    [][/\ SegmentTickStep =>
          /\ SegmentIndexStep
          /\ RampToHoldStep
                 => /\ SegmentAt.hold > 0
                    /\ PureHold(SegmentAt)
                           \/ InRateDirection(SegmentAt, temp + ThermocoupleOffset)
          /\ (oven.segment_phase = "ramp" /\ PureHold(SegmentAt) /\ SegmentAt.hold > 0)
                 => RampToHoldStep
       /\ (RateBased /\ oven.state = "PAUSED" /\ events'[1] = <<"tick", "PAUSED">>
           /\ oven'.profile = oven.profile)
              => oven'.current_segment_index = oven.current_segment_index]_vars

\* the three segments of p4 have been gone through: the pure hold, the ramp without
\* hold, the ramp down and its hold
C39_Witness ==
    /\ RateBased
    /\ oven.profile = "p4"
    /\ oven.current_segment_index = 3
    /\ oven.state = "IDLE"
    /\ cause = "end"


-----------------------------------------------------------------------------
(* v1 firings under a control loop that keeps iterating *)

\* v1 mode, kiln_must_catch_up off
LiveConfig == [BaseConfig EXCEPT !.use_rate_based_control = FALSE, !.kiln_must_catch_up = FALSE]

InitLive ==
    /\ cfg = LiveConfig
    /\ oven = InitOven
    /\ pid = NewPID(StartClock)
    /\ relay = "off"
    /\ state_file = NoFile
    /\ firing_logs = <<>>
    /\ now = StartClock
    /\ temp = 20
    /\ tc_status = TrackerInit
    /\ runs = 0
    /\ events = <<>>
    /\ cause = "init"
    /\ run_ticks = <<>>
    /\ pause_ticks = <<>>
    /\ dir = NoDir
    /\ files = NoFiles
    /\ wr = InitWriter(Free, InitOven)
    /\ rd = InitReader
    /\ call = NoCall

\* one iteration of Oven.run with state RUNNING; the iterations of a firing under way
\* go on after the commands and the other iterations have come to their bound
LiveTickRunning(tp1, oks) ==
    /\ oven.state = "RUNNING"
    /\ LET r == running_branch(World(<<"tick", "RUNNING">>), now, temp, now + TimeStep, tp1,
                               TrackerAddAll(tc_status, oks, 1))
       IN  /\ Commit(r)
           /\ run_ticks' = Append(run_ticks, [t |-> now + TimeStep, temp |-> tp1, duty |-> r.duty])
    /\ pause_ticks' = <<>>
    /\ now' = now + TimeStep
    /\ temp' = tp1
    /\ tc_status' = TrackerAddAll(tc_status, oks, 1)
    /\ UNCHANGED <<cfg, runs, disk_vars, lib_vars>>

\* every read of the thermocouple succeeds
GoodSamples == {[i \in 1..TemperatureAverageSamples |-> TRUE]}

LiveLoop == \E tp1 \in Temps, oks \in GoodSamples : LiveTickRunning(tp1, oks)

NextLive ==
    \/ LiveLoop
    \/ \E tp1 \in Temps, oks \in GoodSamples : TickIdle(tp1, oks)
    \/ \E tp1 \in Temps, oks \in GoodSamples : TickPaused(tp1, oks)
    \/ \E name \in ProfileNames : ClockOpen /\ Run(name)
    \/ ClockOpen /\ Pause
    \/ ClockOpen /\ Resume
    \/ ClockOpen /\ Stop

\* the steps of NextLive that begin with state RUNNING and move the clock: the
\* iterations LiveLoop
LoopIterates == oven.state = "RUNNING" /\ now' = now + TimeStep

\* Oven.run is `while True`: with state RUNNING an iteration takes time_step, and the
\* next one follows
SpecLive == InitLive /\ [][NextLive]_vars /\ WF_now(LoopIterates)

-----------------------------------------------------------------------------
(* C40 *)

\* a RUNNING iteration that no interlock has ended
LiveTickStep ==
    /\ oven.state = "RUNNING"
    /\ events'[1] = <<"tick", "RUNNING">>
    /\ oven'.profile = oven.profile

\* C40: in v1 mode with kiln_must_catch_up off, every started run that is not aborted
\* and not left paused comes to IDLE through the end of its schedule: in every RUNNING
\* tick the runtime becomes the wall time since the schedule start, which is more
\* than it was (the first tick of a run, taken in the second of the run command,
\* finds the 0 it had), and the tick in which it exceeds the duration of the profile
\* ends the run.
C40_RunComesToItsEnd ==
    /\ (oven.state = "RUNNING") ~> (oven.state = "PAUSED" \/ oven.state = "IDLE")
    /\ [][LiveTickStep =>
             /\ oven'.start_time = oven.start_time
             /\ oven'.runtime = now - oven.start_time
             /\ oven'.runtime > oven.runtime \/ now = oven.start_time
             /\ now' > now
             /\ oven'.state = (IF oven'.runtime > get_duration(ProfileOf(oven.profile))
                               THEN "IDLE" ELSE "RUNNING")
             /\ oven'.state = "IDLE" => cause' = "end"]_vars

\* a run has come to IDLE through the end of its schedule after the other iterations
\* had come to their bound
C40_Witness ==
    /\ oven.state = "IDLE"
    /\ cause = "end"
    /\ oven.runtime > oven.totaltime
    /\ ~ClockOpen

====
